---- MODULE Spec2Model ----
(***************************************************************************)
(* Dino-Evo: the topology-evolving network engine.                         *)
(*                                                                         *)
(* The state is a small population of genomes.  A genome is the record     *)
(* Genome.__init__ builds: in_features, out_features, its own node_counter *)
(* and the two Python lists nodes and edges.  Node and Edge are Python     *)
(* objects: every node and edge record carries the identity of its object  *)
(* (obj), because crossover puts the dominant parent's objects into the    *)
(* offspring's lists and the mutation operators assign to those objects in *)
(* place.                                                                  *)
(*                                                                         *)
(* Numbers (weights, biases, inputs) are kept in units of 1/Unit; the      *)
(* values forward computes are exact fractions [n, d].                     *)
(***************************************************************************)
EXTENDS Integers, Sequences, FiniteSets, TLC

VARIABLES pop, status, last, steps, ctl

vars == <<pop, status, last, steps, ctl>>

(***************************************************************************)
(* Bounds of the model.                                                    *)
(***************************************************************************)
MaxSteps == 3       \* operator calls in a run of a population of several genomes
MaxStepsSolo == 5   \* operator calls in a run of a population of one genome
MaxNodes == 4       \* add-node is cut off at this many nodes in a genome
MaxEdges == 6       \* add-node / add-edge are cut off at this many edges
MaxCounter == 5     \* largest id a node_counter hands out

\* settings.population_size, scaled down: the population sizes of a run
PopulationSizes == {1, 2}

\* Genome(in_features, out_features) shapes of a run
Shapes == {<<1, 1>>}

\* number representation: a stored number k stands for k / Unit
Unit == 2
\* random.random() * sqrt(2 / in_features), sampled
InitWeights == {1, 2}
\* the weight draws of the genomes made for a population of Dinosaurs
EvolveWeights == {1}
\* random.random() in [0, 1), sampled: the bias of a new node, the weight of
\* a new edge
BiasDraws == {0, 1}
WeightDraws == {0, 1}
\* np.random.normal(0, sigma) for a sigma above 0, sampled
NoiseDraws == {1}
\* the values an input vector is made of
InputDraws == {-2, 0, 2}

\* the guarded insertions: calls in a run, and the shapes of its genomes
MaxInsertions == 3
\* calls of evolve_population in a run, and the fitness the frames stop at
MaxGenerations == 3
MaxFitness == 3
GuardShapes == {<<1, 2>>, <<2, 1>>, <<2, 2>>}
\* further shapes of the genomes that are evaluated
NetworkShapes == {<<2, 1>>, <<1, 3>>}

(***************************************************************************)
(* Sequence helpers.                                                       *)
(***************************************************************************)
Range(s) == {s[i] : i \in DOMAIN s}

Max(a, b) == IF a >= b THEN a ELSE b

\* the first of a set of list positions, 0 when there is none (None)
First(S) == IF S = {} THEN 0 ELSE CHOOSE i \in S : \A j \in S : i <= j

\* list.remove(x) on a list of objects compared by identity
RemoveObj(s, o) ==
    LET i == First({k \in DOMAIN s : s[k].obj = o})
    IN  IF i = 0 THEN s
        ELSE [k \in 1..(Len(s) - 1) |-> IF k < i THEN s[k] ELSE s[k + 1]]

\* range(a, b) as a list
PyRange(a, b) == [k \in 1..Max(0, b - a) |-> a + k - 1]

(***************************************************************************)
(* Object identities.  A new object gets the smallest identity no live     *)
(* object has (an identity is only ever compared with live objects).       *)
(***************************************************************************)
NodeObjs(p) == UNION {{n.obj : n \in Range(p[g].nodes)} : g \in DOMAIN p}

EdgeObjs(p) == UNION {{e.obj : e \in Range(p[g].edges)} : g \in DOMAIN p}

\* Identities are only compared for equality, so each state names its live
\* objects by the order in which they are first met when the population's
\* lists are read front to back.
RECURSIVE ObjList(_, _, _)
ObjList(p, kind, g) ==
    IF g = 0 THEN <<>>
    ELSE ObjList(p, kind, g - 1)
         \o [k \in DOMAIN p[g][kind] |-> p[g][kind][k].obj]

Rank(s, o) == Cardinality({s[j] : j \in 1..First({k \in DOMAIN s : s[k] = o})})

Renamed(p, kind, g) ==
    [k \in DOMAIN p[g][kind] |->
        [p[g][kind][k] EXCEPT
            !.obj = Rank(ObjList(p, kind, Len(p)), p[g][kind][k].obj)]]

Canon(p) ==
    [g \in DOMAIN p |->
        [p[g] EXCEPT !.nodes = Renamed(p, "nodes", g),
                     !.edges = Renamed(p, "edges", g)]]

\* the k-th smallest identity that is not in used
NthFree(used, k) ==
    CHOOSE x \in 1..(Cardinality(used) + k) :
        x \notin used /\ Cardinality({y \in 1..x : y \notin used}) = k

(***************************************************************************)
(* Counter (src/neat/counter.py).  value is a class attribute read through *)
(* the instance; the first increment stores an instance attribute.  Every  *)
(* Counter() therefore starts at 1 on its own.                             *)
(***************************************************************************)
CounterInit == 1

Node(o, node_id, bias, activation) ==
    [obj |-> o, id |-> node_id, bias |-> bias, activation |-> activation]

Edge(o, input_id, output_id, weight, is_enabled) ==
    [obj |-> o, input_id |-> input_id, output_id |-> output_id,
     weight |-> weight, is_enabled |-> is_enabled]

\* Link.__eq__
LinkEq(e, input_id, output_id) ==
    e.input_id = input_id /\ e.output_id = output_id

\* Genome.__init__
NewGenome(in_features, out_features) ==
    [in_features |-> in_features, out_features |-> out_features,
     node_counter |-> CounterInit, nodes |-> <<>>, edges |-> <<>>]

\* the value of a slot that holds no genome (history fields only)
NoGenome == NewGenome(0, 0)

(***************************************************************************)
(* Genome queries (src/nn/genome.py).                                      *)
(***************************************************************************)
\* find_node: the index of the first node with this id, 0 for None
find_node(g, node_id) ==
    First({k \in DOMAIN g.nodes : g.nodes[k].id = node_id})

\* find_edge: the index of the first edge with an equal Link, 0 for None
find_edge(g, input_id, output_id) ==
    First({k \in DOMAIN g.edges : LinkEq(g.edges[k], input_id, output_id)})

get_input_nodes(g) == PyRange(1, g.in_features + 1)

get_output_nodes(g) ==
    PyRange(g.in_features + 1, g.in_features + g.out_features + 1)

\* get_hidden_nodes starting right behind the inputs
get_hidden_nodes_from_outputs(g) ==
    PyRange(g.in_features + 1, Len(g.nodes) + 1)

get_hidden_nodes(g) ==
    PyRange(g.in_features + g.out_features + 2, Len(g.nodes) + 1)

\* would_create_cycle: the single-successor walk.  Each round takes the first
\* edge of the list (enabled or not) that leaves the current node.  The walk
\* is a function of the current node alone, so it runs forever exactly when
\* it comes back to a node it has left before.
RECURSIVE CycleWalk(_, _, _, _)
CycleWalk(g, source, current, seen) ==
    LET i == First({k \in DOMAIN g.edges : g.edges[k].input_id = current})
    IN  IF i = 0 THEN "False"
        ELSE IF g.edges[i].output_id = source THEN "True"
        ELSE IF g.edges[i].output_id \in seen THEN "diverges"
        ELSE CycleWalk(g, source, g.edges[i].output_id,
                       seen \cup {g.edges[i].output_id})

would_create_cycle(g, input_id, output_id) ==
    CycleWalk(g, input_id, output_id, {output_id})

(***************************************************************************)
(* Genome updates (src/nn/genome.py).                                      *)
(***************************************************************************)
add_node(g, n) == [g EXCEPT !.nodes = Append(@, n)]

add_edge(g, e) == [g EXCEPT !.edges = Append(@, e)]

RECURSIVE RemoveEdges(_, _)
RemoveEdges(edges, to_remove) ==
    IF to_remove = <<>> THEN edges
    ELSE RemoveEdges(RemoveObj(edges, Head(to_remove).obj), Tail(to_remove))

\* remove_node without its early return: the edge sweep runs for an absent id too
remove_node_sweeping(g, node_id) ==
    LET i == find_node(g, node_id)
        edges_to_remove ==
            SelectSeq(g.edges,
                      LAMBDA e : e.input_id = node_id \/ e.output_id = node_id)
    IN  [g EXCEPT !.nodes = IF i = 0 THEN @ ELSE RemoveObj(@, g.nodes[i].obj),
                  !.edges = RemoveEdges(@, edges_to_remove)]

\* remove_node leaving the edges of the removed node in place
remove_node_keeping_edges(g, node_id) ==
    LET i == find_node(g, node_id)
    IN  IF i = 0 THEN g
        ELSE [g EXCEPT !.nodes = RemoveObj(@, g.nodes[i].obj)]

remove_node(g, node_id) ==
    LET i == find_node(g, node_id)
    IN  IF i = 0 THEN g
        ELSE LET edges_to_remove ==
                     SelectSeq(g.edges,
                               LAMBDA e : e.input_id = node_id
                                          \/ e.output_id = node_id)
             IN  [g EXCEPT !.nodes = RemoveObj(@, g.nodes[i].obj),
                           !.edges = RemoveEdges(@, edges_to_remove)]

\* initialize_genome wiring the inputs to the first output only
initialize_genome_single_output(g0, nobj, eobj, w) ==
    LET n_in == g0.in_features
        n_out == g0.out_features
        nodes == [k \in 1..(n_in + n_out) |->
                     Node(nobj[k], g0.node_counter + k - 1, 0, "relu")]
        edges == [k \in 1..(n_in * n_out) |->
                     LET i == ((k - 1) \div n_out) + 1
                     IN  Edge(eobj[k], i, n_in + 1, w[k], TRUE)]
    IN  [g0 EXCEPT !.node_counter = @ + n_in + n_out,
                   !.nodes = @ \o nodes,
                   !.edges = @ \o edges]

\* initialize_genome, with the drawn weights w[i][j]
initialize_genome(g0, nobj, eobj, w) ==
    LET n_in == g0.in_features
        n_out == g0.out_features
        nodes == [k \in 1..(n_in + n_out) |->
                     Node(nobj[k], g0.node_counter + k - 1, 0, "relu")]
        edges == [k \in 1..(n_in * n_out) |->
                     LET i == ((k - 1) \div n_out) + 1
                         j == ((k - 1) % n_out) + 1
                     IN  Edge(eobj[k], i, n_in + j, w[k], TRUE)]
    IN  [g0 EXCEPT !.node_counter = @ + n_in + n_out,
                   !.nodes = @ \o nodes,
                   !.edges = @ \o edges]

(***************************************************************************)
(* Assignments to a Node or Edge object: every list that holds the object  *)
(* sees the new value.                                                     *)
(***************************************************************************)
SetEnabled(p, o, v) ==
    [g \in DOMAIN p |->
        [p[g] EXCEPT !.edges =
            [k \in DOMAIN p[g].edges |->
                IF p[g].edges[k].obj = o
                THEN [p[g].edges[k] EXCEPT !.is_enabled = v]
                ELSE p[g].edges[k]]]]

(***************************************************************************)
(* Structural operators (src/neat/evolutionary_operators.py).              *)
(***************************************************************************)
\* crossover_node: bias and activation each drawn from the two parents
crossover_node(a, b) ==
    {Node(0, a.id, bias, activation) :
        bias \in {a.bias, b.bias}, activation \in {a.activation, b.activation}}

\* crossover_edge blending the two weights instead of drawing one of them
crossover_edge_blended(a, b) ==
    {Edge(0, a.input_id, a.output_id, a.weight + b.weight, is_enabled) :
        is_enabled \in {a.is_enabled, b.is_enabled}}

\* crossover_edge: weight and is_enabled each drawn from the two parents
crossover_edge(a, b) ==
    {Edge(0, a.input_id, a.output_id, weight, is_enabled) :
        weight \in {a.weight, b.weight},
        is_enabled \in {a.is_enabled, b.is_enabled}}

\* the node the offspring gets for dominant.nodes[k]: the dominant's own object
\* when the recessive parent has no node of that id, else a new Node (obj 0
\* until it is given its identity)
OffspringNodeChoices(dominant, recessive, k) ==
    LET node == dominant.nodes[k]
        i == find_node(recessive, node.id)
    IN  IF i = 0 THEN {node} ELSE crossover_node(node, recessive.nodes[i])

OffspringEdgeChoices(dominant, recessive, k) ==
    LET edge == dominant.edges[k]
        i == find_edge(recessive, edge.input_id, edge.output_id)
    IN  IF i = 0 THEN {edge} ELSE crossover_edge(edge, recessive.edges[i])

\* all lists the first loop of crossover can build from dominant.nodes[1..k]
RECURSIVE OffspringNodes(_, _, _)
OffspringNodes(dominant, recessive, k) ==
    IF k = 0 THEN {<<>>}
    ELSE {Append(s, n) : s \in OffspringNodes(dominant, recessive, k - 1),
                         n \in OffspringNodeChoices(dominant, recessive, k)}

RECURSIVE OffspringEdges(_, _, _)
OffspringEdges(dominant, recessive, k) ==
    IF k = 0 THEN {<<>>}
    ELSE {Append(s, e) : s \in OffspringEdges(dominant, recessive, k - 1),
                         e \in OffspringEdgeChoices(dominant, recessive, k)}

\* the new objects of a list get their identities, in list order
Identify(s, used) ==
    [k \in DOMAIN s |->
        IF s[k].obj # 0 THEN s[k]
        ELSE [s[k] EXCEPT !.obj =
                 NthFree(used, Cardinality({j \in 1..k : s[j].obj = 0}))]]

\* crossover: the offspring is a new Genome (with a new Counter)
crossover(dominant, recessive, nodes, edges) ==
    [NewGenome(dominant.in_features, dominant.out_features)
        EXCEPT !.nodes = nodes, !.edges = edges]

\* mutate_add_edge past its draws: the population after the call
mutate_add_edge(p, g, input_id, output_id, weight) ==
    LET i == find_edge(p[g], input_id, output_id)
    IN  IF i # 0 THEN SetEnabled(p, p[g].edges[i].obj, TRUE)
        ELSE IF would_create_cycle(p[g], input_id, output_id) # "False" THEN p
        ELSE [p EXCEPT ![g] =
                 add_edge(@, Edge(NthFree(EdgeObjs(p), 1),
                                  input_id, output_id, weight, TRUE))]

\* mutate_add_node past its draws (k: the edge picked, bias: the new bias)
mutate_add_node(p, g, k, bias) ==
    IF p[g].edges = <<>> THEN p
    ELSE LET old_edge == p[g].edges[k]
             q == SetEnabled(p, old_edge.obj, FALSE)
             new_id == p[g].node_counter
             new_node == Node(NthFree(NodeObjs(p), 1), new_id, bias, "relu")
         IN  [q EXCEPT ![g] =
                 add_edge(
                   add_edge(
                     add_node([@ EXCEPT !.node_counter = @ + 1], new_node),
                     Edge(NthFree(EdgeObjs(p), 1),
                          old_edge.input_id, new_id, Unit, TRUE)),
                   Edge(NthFree(EdgeObjs(p), 2),
                        new_id, old_edge.output_id, old_edge.weight, TRUE))]

\* mutate_remove_node past its draw (0: there was no hidden node to draw)
mutate_remove_node(p, g, node_id) ==
    IF get_hidden_nodes(p[g]) = <<>> THEN p
    ELSE [p EXCEPT ![g] = remove_node(@, node_id)]

(***************************************************************************)
(* Numbers of the forward pass: exact fractions n / d, d a power of Unit,  *)
(* in lowest terms (so equal numbers are equal records).                   *)
(***************************************************************************)
RECURSIVE Norm(_, _)
Norm(n, d) ==
    IF d > 1 /\ n % Unit = 0 THEN Norm(n \div Unit, d \div Unit)
    ELSE [n |-> n, d |-> d]

\* the value of a stored number
Number(k) == Norm(k, Unit)

Add(x, y) == Norm(x.n * y.d + y.n * x.d, x.d * y.d)

Mul(x, y) == Norm(x.n * y.n, x.d * y.d)

\* an activation that lets negative sums through
identity(x) == x

\* activations.relu: max(0, x)
relu(x) == IF x.n > 0 THEN x ELSE Number(0)

\* list(s) of a set of small ints: CPython walks the hash table, which holds
\* small non-negative ints in ascending order
RECURSIVE Asc(_)
Asc(S) ==
    IF S = {} THEN <<>>
    ELSE LET m == CHOOSE x \in S : \A y \in S : x <= y
         IN  <<m>> \o Asc(S \ {m})

(***************************************************************************)
(* FeedForwardNetwork (src/nn/ffn.py).                                     *)
(***************************************************************************)
\* node_map[node_id]: the dict comprehension keeps the last node of an id
node_map(g, node_id) ==
    g.nodes[CHOOSE k \in DOMAIN g.nodes :
               /\ g.nodes[k].id = node_id
               /\ \A j \in DOMAIN g.nodes : g.nodes[j].id = node_id => j <= k]

\* dependencies[node_id]: the sources of the enabled edges into node_id
dependencies(g, node_id) ==
    {g.edges[k].input_id :
        k \in {j \in DOMAIN g.edges :
                  g.edges[j].is_enabled /\ g.edges[j].output_id = node_id}}

\* one pass of the for loop that promotes every node it meets
RECURSIVE ScanUnchecked(_, _, _)
ScanUnchecked(g, todo, order) ==
    IF todo = <<>> THEN order
    ELSE ScanUnchecked(g, Tail(todo), Append(order, Head(todo)))

\* one pass of the for loop over list(remaining): a node whose dependencies
\* are all visited is promoted at once, and later nodes of the pass see it
RECURSIVE Scan(_, _, _)
Scan(g, todo, order) ==
    IF todo = <<>> THEN order
    ELSE IF dependencies(g, Head(todo)) \subseteq Range(order)
         THEN Scan(g, Tail(todo), Append(order, Head(todo)))
         ELSE Scan(g, Tail(todo), order)

\* the while loop leaving out the nodes it could not resolve
RECURSIVE TopologicalOrderResolved(_, _)
TopologicalOrderResolved(g, order) ==
    LET remaining == {g.nodes[k].id : k \in DOMAIN g.nodes} \ Range(order)
        scanned == Scan(g, Asc(remaining), order)
    IN  IF remaining = {} \/ scanned = order THEN order
        ELSE TopologicalOrderResolved(g, scanned)

\* the while loop: visited is the set of the ids in order
RECURSIVE TopologicalOrder(_, _)
TopologicalOrder(g, order) ==
    LET remaining == {g.nodes[k].id : k \in DOMAIN g.nodes} \ Range(order)
        scanned == Scan(g, Asc(remaining), order)
    IN  IF remaining = {} THEN order
        ELSE IF scanned = order THEN order \o Asc(remaining)
        ELSE TopologicalOrder(g, scanned)

get_topological_order(g) == TopologicalOrder(g, get_input_nodes(g))

\* the weighted sum over all edges into node_id, the disabled ones included
RECURSIVE WeightedSumAll(_, _, _, _)
WeightedSumAll(g, node_id, node_outputs, k) ==
    IF k = 0 THEN Number(0)
    ELSE LET edge == g.edges[k]
             sum == WeightedSumAll(g, node_id, node_outputs, k - 1)
         IN  IF edge.output_id = node_id
             THEN Add(sum, Mul(node_outputs[edge.input_id], Number(edge.weight)))
             ELSE sum

\* the weighted sum over the enabled edges into node_id, in list order
RECURSIVE WeightedSum(_, _, _, _)
WeightedSum(g, node_id, node_outputs, k) ==
    IF k = 0 THEN Number(0)
    ELSE LET edge == g.edges[k]
             sum == WeightedSum(g, node_id, node_outputs, k - 1)
         IN  IF edge.is_enabled /\ edge.output_id = node_id
             THEN Add(sum, Mul(node_outputs[edge.input_id], Number(edge.weight)))
             ELSE sum

\* the loop over node_order; node_outputs[input_node_id] raises KeyError when
\* no node and no input has that id
RECURSIVE Propagate(_, _, _)
Propagate(g, node_order, node_outputs) ==
    IF node_order = <<>> THEN [raised |-> "", node_outputs |-> node_outputs]
    ELSE LET node_id == Head(node_order)
             node == node_map(g, node_id)
         IN  IF \E k \in DOMAIN g.edges :
                    /\ g.edges[k].is_enabled
                    /\ g.edges[k].output_id = node_id
                    /\ g.edges[k].input_id \notin DOMAIN node_outputs
             THEN [raised |-> "KeyError", node_outputs |-> node_outputs]
             ELSE Propagate(g, Tail(node_order),
                      [node_outputs EXCEPT ![node_id] =
                          relu(Add(WeightedSum(g, node_id, node_outputs,
                                               Len(g.edges)),
                                   Number(node.bias)))])

\* forward: the outputs, or the exception it ends with; inputs[i - 1] raises
\* IndexError when the vector is shorter than in_features
forward(g, inputs) ==
    LET ids == {g.nodes[k].id : k \in DOMAIN g.nodes} \cup (1..g.in_features)
        node_outputs ==
            [node_id \in ids |->
                IF node_id \in 1..g.in_features THEN Number(inputs[node_id])
                ELSE Number(0)]
        node_order == SubSeq(get_topological_order(g), g.in_features + 1,
                             Len(get_topological_order(g)))
        done == Propagate(g, node_order, node_outputs)
        output_ids == get_output_nodes(g)
    IN  IF Len(inputs) < g.in_features
        THEN [raised |-> "IndexError", outputs |-> <<>>]
        ELSE IF done.raised # "" THEN [raised |-> done.raised, outputs |-> <<>>]
        ELSE IF \E k \in DOMAIN output_ids :
                    output_ids[k] \notin DOMAIN done.node_outputs
        THEN [raised |-> "KeyError", outputs |-> <<>>]
        ELSE [raised |-> "",
              outputs |-> [k \in DOMAIN output_ids |->
                              done.node_outputs[output_ids[k]]]]

\* the input vectors of a genome
InputVectors(g) == [1..g.in_features -> InputDraws]

(***************************************************************************)
(* mutate (src/neat/evolutionary_operators.py), over all its draws.  A     *)
(* rate or a scale is a fraction [n, d]; an outcome is the population of   *)
(* genomes after the call and whether the call returned.                   *)
(***************************************************************************)
Frac(n, d) == [n |-> n, d |-> d]

Times(x, c) == Frac(x.n * c, x.d)

\* random.random() < rate, random.random() in [0, 1): the values it can have
Gate(rate) == {b \in BOOLEAN : (b => rate.n > 0) /\ (~b => rate.n < rate.d)}

\* np.random.normal(0, sigma), sampled; a sigma of 0 gives 0.0
Normal(sigma) == IF sigma.n = 0 THEN {0} ELSE NoiseDraws

Outcome(p, st) == [pop |-> p, status |-> st]

MutateAddEdgeOutcomes(p, g) ==
    LET in_id_range == get_hidden_nodes(p[g]) \o get_output_nodes(p[g])
        draws == {d \in (1..p[g].in_features) \X Range(in_id_range) \X WeightDraws :
                     d[1] # d[2]}
    IN  IF in_id_range = <<>> THEN {Outcome(p, "running")}
        ELSE {Outcome(mutate_add_edge(p, g, d[1], d[2], d[3]),
                      IF /\ find_edge(p[g], d[1], d[2]) = 0
                         /\ would_create_cycle(p[g], d[1], d[2]) = "diverges"
                      THEN "hung" ELSE "running") : d \in draws}

MutateAddNodeOutcomes(p, g) ==
    IF p[g].edges = <<>> THEN {p}
    ELSE {mutate_add_node(p, g, k, bias) :
             k \in DOMAIN p[g].edges, bias \in BiasDraws}

MutateRemoveNodeOutcomes(p, g) ==
    IF get_hidden_nodes(p[g]) = <<>> THEN {p}
    ELSE {mutate_remove_node(p, g, node_id) :
             node_id \in Range(get_hidden_nodes(p[g]))}

\* what one element of the loop adds: nothing when the draw fails the test,
\* else a sample of the normal distribution
Perturbations(mutation_rate, mutation_scale) ==
    (IF FALSE \in Gate(mutation_rate) THEN {0} ELSE {})
        \cup (IF TRUE \in Gate(mutation_rate) THEN Normal(mutation_scale) ELSE {})

\* edge.weight += d[k] for the k-th edge of genome g (an assignment to the Edge
\* object: every list that holds it sees the new weight)
AddWeights(p, g, d) ==
    [h \in DOMAIN p |->
        [p[h] EXCEPT !.edges =
            [k \in DOMAIN p[h].edges |->
                LET j == First({i \in DOMAIN p[g].edges :
                                   p[g].edges[i].obj = p[h].edges[k].obj})
                IN  IF j = 0 THEN p[h].edges[k]
                    ELSE [p[h].edges[k] EXCEPT !.weight = @ + d[j]]]]]

\* node.bias += d[k] for the k-th node of genome g
AddBiases(p, g, d) ==
    [h \in DOMAIN p |->
        [p[h] EXCEPT !.nodes =
            [k \in DOMAIN p[h].nodes |->
                LET j == First({i \in DOMAIN p[g].nodes :
                                   p[g].nodes[i].obj = p[h].nodes[k].obj})
                IN  IF j = 0 THEN p[h].nodes[k]
                    ELSE [p[h].nodes[k] EXCEPT !.bias = @ + d[j]]]]]

mutate_weights(p, g, mutation_rate, mutation_scale) ==
    {AddWeights(p, g, d) :
        d \in [DOMAIN p[g].edges -> Perturbations(mutation_rate, mutation_scale)]}

mutate_bias(p, g, mutation_rate, mutation_scale) ==
    {AddBiases(p, g, d) :
        d \in [DOMAIN p[g].nodes -> Perturbations(mutation_rate, mutation_scale)]}

\* the three structural steps of mutate, each behind its own draw
MutateStructure(p, g, mutation_rate) ==
    LET skip == FALSE \in Gate(mutation_rate)
        take == TRUE \in Gate(mutation_rate)
        after_add_edge ==
            (IF skip THEN {Outcome(p, "running")} ELSE {})
                \cup (IF take THEN MutateAddEdgeOutcomes(p, g) ELSE {})
        hung == {o \in after_add_edge : o.status = "hung"}
        returned == {o.pop : o \in after_add_edge \ hung}
        after_add_node ==
            UNION {(IF skip THEN {q} ELSE {})
                       \cup (IF take THEN MutateAddNodeOutcomes(q, g) ELSE {}) :
                   q \in returned}
        after_remove_node ==
            UNION {(IF skip THEN {q} ELSE {})
                       \cup (IF take THEN MutateRemoveNodeOutcomes(q, g) ELSE {}) :
                   q \in after_add_node}
    IN  hung \cup {Outcome(q, "running") : q \in after_remove_node}

\* mutate: mutate_weights and mutate_bias are handed (mutation_scale,
\* mutation_rate) for their parameters (mutation_rate, mutation_scale)
mutate(p, g, mutation_rate, mutation_scale) ==
    LET structure == MutateStructure(p, g, mutation_rate)
        hung == {o \in structure : o.status = "hung"}
        weighted ==
            UNION {mutate_weights(o.pop, g, mutation_scale, mutation_rate) :
                   o \in structure \ hung}
        biased ==
            UNION {mutate_bias(q, g, mutation_scale, mutation_rate) :
                   q \in weighted}
    IN  hung \cup {Outcome(q, "running") : q \in biased}

(***************************************************************************)
(* Dinosaur and PopulationController (src/dinosaur.py,                     *)
(* src/population_controller.py).  The population is a Python list of      *)
(* references to Dinosaur objects: an entry carries the identity of its    *)
(* Dinosaur (obj), the Genome object of its controller (genome, a position *)
(* of pop) and the Dinosaur's fitness and is_alive.                        *)
(***************************************************************************)
FitnessInit == 1

Dinosaur(o, genome) ==
    [obj |-> o, genome |-> genome, fitness |-> FitnessInit, is_alive |-> TRUE]

\* the record of the latest evolve_population call
NoCall ==
    [outgoing |-> <<>>, previous_best_fitness |-> 0, is_stagnating |-> FALSE,
     best_dinosaurs |-> <<>>, parents |-> <<>>, retained |-> 0, children |-> 0,
     fresh |-> 0, raised |-> "none"]

PopulationController(settings, shape) ==
    [settings |-> settings, shape |-> shape, population |-> <<>>,
     previous_best_fitness |-> 0, ticked |-> FALSE, call |-> NoCall]

\* no controller: the operators are called on the genomes directly
NoController == PopulationController(<<>>, <<>>)

(***************************************************************************)
(* The state machine.  last is the record of the latest call: the          *)
(* operator, the slot of the genome it worked on, that genome before the   *)
(* call (for crossover the dominant parent, rec the recessive one) and the *)
(* values drawn.  status is "hung" once a call does not return.             *)
(***************************************************************************)
Call(op, g, pre, rec, id, input_id, output_id, edge) ==
    [op |-> op, g |-> g, pre |-> pre, rec |-> rec, id |-> id,
     input_id |-> input_id, output_id |-> output_id, edge |-> edge]

\* Genome(in, out) followed by initialize_genome, with the weights drawn; kept
\* are the genomes that stay alive beside the new one
FreshGenome(shape, w, kept) ==
    initialize_genome(
        NewGenome(shape[1], shape[2]),
        [k \in 1..(shape[1] + shape[2]) |-> NthFree(NodeObjs(kept), k)],
        [k \in 1..(shape[1] * shape[2]) |-> NthFree(EdgeObjs(kept), k)],
        w)

\* initialize_population: population_size fresh genomes of one shape
RECURSIVE FreshPopulations(_, _)
FreshPopulations(shape, n) ==
    IF n = 0 THEN {<<>>}
    ELSE {Append(p, FreshGenome(shape, w, p)) :
             p \in FreshPopulations(shape, n - 1),
             w \in [1..(shape[1] * shape[2]) -> InitWeights]}

InitOf(population_size) ==
    /\ pop \in UNION {FreshPopulations(shape, population_size) : shape \in Shapes}
    /\ status = "running"
    /\ last = Call("none", 0, NoGenome, NoGenome, 0, 0, 0, 0)
    /\ steps = 0
    /\ ctl = NoController

Init == \E population_size \in PopulationSizes : InitOf(population_size)

\* one more call is made
Step ==
    /\ steps < (IF Len(pop) = 1 THEN MaxStepsSolo ELSE MaxSteps)
    /\ steps' = steps + 1

\* a fresh genome takes the place of a genome of the population (the
\* replacement made in a stagnating generation)
Initialize ==
    /\ Step
    /\ status = "running"
    /\ \E t \in DOMAIN pop :
        LET shape == <<pop[t].in_features, pop[t].out_features>>
            kept == [k \in DOMAIN pop |-> IF k = t THEN NoGenome ELSE pop[k]]
        IN  \E w \in [1..(shape[1] * shape[2]) -> InitWeights] :
            /\ pop' = Canon([pop EXCEPT ![t] = FreshGenome(shape, w, kept)])
            /\ last' = Call("initialize", t, NoGenome, NoGenome, 0, 0, 0, 0)
    /\ UNCHANGED <<status, ctl>>

Crossover ==
    /\ Step
    /\ status = "running"
    /\ \E d \in DOMAIN pop, r \in DOMAIN pop, t \in DOMAIN pop :
        \E nodes \in OffspringNodes(pop[d], pop[r], Len(pop[d].nodes)),
           edges \in OffspringEdges(pop[d], pop[r], Len(pop[d].edges)) :
            LET offspring ==
                    crossover(pop[d], pop[r],
                              Identify(nodes, NodeObjs(pop)),
                              Identify(edges, EdgeObjs(pop)))
            IN  /\ pop' = Canon([pop EXCEPT ![t] = offspring])
                /\ last' = Call("crossover", t, pop[d], pop[r], 0, 0, 0, 0)
    /\ UNCHANGED <<status, ctl>>

MutateAddEdge ==
    /\ Step
    /\ status = "running"
    /\ \E g \in DOMAIN pop :
        LET in_id_range == get_hidden_nodes(pop[g]) \o get_output_nodes(pop[g])
        IN  /\ in_id_range # <<>>
            /\ \E input_id \in 1..pop[g].in_features,
                  output_id \in Range(in_id_range),
                  weight \in WeightDraws :
                /\ input_id # output_id
                /\ find_edge(pop[g], input_id, output_id) = 0
                       => Len(pop[g].edges) < MaxEdges
                /\ pop' = Canon(mutate_add_edge(pop, g, input_id, output_id, weight))
                /\ status' =
                       IF /\ find_edge(pop[g], input_id, output_id) = 0
                          /\ would_create_cycle(pop[g], input_id, output_id)
                                 = "diverges"
                       THEN "hung" ELSE "running"
                /\ last' = Call("mutate_add_edge", g, pop[g], NoGenome,
                                0, input_id, output_id, 0)
    /\ UNCHANGED ctl

MutateAddNode ==
    /\ Step
    /\ status = "running"
    /\ \E g \in DOMAIN pop :
        /\ Len(pop[g].nodes) < MaxNodes
        /\ Len(pop[g].edges) + 2 <= MaxEdges
        /\ pop[g].node_counter <= MaxCounter
        /\ IF pop[g].edges = <<>>
           THEN /\ pop' = Canon(mutate_add_node(pop, g, 0, 0))
                /\ last' = Call("mutate_add_node", g, pop[g], NoGenome,
                                0, 0, 0, 0)
           ELSE \E k \in DOMAIN pop[g].edges, bias \in BiasDraws :
                /\ pop' = Canon(mutate_add_node(pop, g, k, bias))
                /\ last' = Call("mutate_add_node", g, pop[g], NoGenome,
                                pop[g].node_counter,
                                pop[g].edges[k].input_id,
                                pop[g].edges[k].output_id, k)
    /\ UNCHANGED <<status, ctl>>

MutateRemoveNode ==
    /\ Step
    /\ status = "running"
    /\ \E g \in DOMAIN pop :
        \E node_id \in IF get_hidden_nodes(pop[g]) = <<>> THEN {0}
                       ELSE Range(get_hidden_nodes(pop[g])) :
            /\ pop' = Canon(mutate_remove_node(pop, g, node_id))
            /\ last' = Call("mutate_remove_node", g, pop[g], NoGenome,
                            node_id, 0, 0, 0)
    /\ UNCHANGED <<status, ctl>>

Next ==
    \/ Initialize
    \/ Crossover
    \/ MutateAddEdge
    \/ MutateAddNode
    \/ MutateRemoveNode

Spec == Init /\ [][Next]_vars

(***************************************************************************)
(* The cycle guard on its own: one fresh genome, and edges inserted        *)
(* between any two of its nodes through the gate of mutate_add_edge (the   *)
(* redraw of a destination equal to the source, the lookup that re-enables *)
(* an existing edge, would_create_cycle, add_edge).                        *)
(***************************************************************************)
InitGuard ==
    /\ pop \in UNION {FreshPopulations(shape, 1) : shape \in GuardShapes}
    /\ status = "running"
    /\ last = Call("none", 0, NoGenome, NoGenome, 0, 0, 0, 0)
    /\ steps = 0
    /\ ctl = NoController

GuardedInsert ==
    /\ steps < MaxInsertions
    /\ steps' = steps + 1
    /\ status = "running"
    /\ \E g \in DOMAIN pop :
        \E input_id \in {pop[g].nodes[k].id : k \in DOMAIN pop[g].nodes},
           output_id \in {pop[g].nodes[k].id : k \in DOMAIN pop[g].nodes},
           weight \in WeightDraws :
            /\ input_id # output_id
            /\ pop' = Canon(mutate_add_edge(pop, g, input_id, output_id, weight))
            /\ status' =
                   IF /\ find_edge(pop[g], input_id, output_id) = 0
                      /\ would_create_cycle(pop[g], input_id, output_id)
                             = "diverges"
                   THEN "hung" ELSE "running"
            /\ last' = Call("insert", g, pop[g], NoGenome,
                            0, input_id, output_id, 0)
    /\ UNCHANGED ctl

NextGuard == GuardedInsert

SpecGuard == InitGuard /\ [][NextGuard]_vars

(***************************************************************************)
(* The game loop around PopulationController (ChromeDinoGame.run in        *)
(* src/game.py): frames of the game until no Dinosaur is alive, then       *)
(* evolve_population.  pop holds the Genome objects the population's       *)
(* controllers refer to.                                                   *)
(***************************************************************************)
Settings(population_size, selection_amount, mutation_rate, mutation_scale, stagnation_threshold, stagnation_replacement_percentage) ==
    [population_size |-> population_size,
     selection_amount |-> selection_amount,
     mutation_rate |-> mutation_rate,
     mutation_scale |-> mutation_scale,
     stagnation_threshold |-> stagnation_threshold,
     stagnation_replacement_percentage |-> stagnation_replacement_percentage]

\* the settings the runs are made under
SettingsDraws ==
    {Settings(3, Frac(2, 3), Frac(0, 1), Frac(0, 1), Frac(0, 1), Frac(1, 3)),
     Settings(3, Frac(2, 3), Frac(1, 1), Frac(0, 1), Frac(1, 2), Frac(0, 1)),
     Settings(3, Frac(2, 3), Frac(0, 1), Frac(0, 1), Frac(0, 1), Frac(1, 1)),
     Settings(2, Frac(1, 2), Frac(0, 1), Frac(0, 1), Frac(0, 1), Frac(1, 2)),
     Settings(2, Frac(1, 1), Frac(0, 1), Frac(0, 1), Frac(1, 2), Frac(1, 2)),
     Settings(1, Frac(1, 1), Frac(0, 1), Frac(0, 1), Frac(0, 1), Frac(0, 1))}

\* int(x * fraction) for x >= 0
IntTimes(x, fraction) == (x * fraction.n) \div fraction.d

\* the Dinosaur objects of a list
DinoObjs(population) == {population[k].obj : k \in DOMAIN population}

\* the first entry of a Dinosaur object in a list
DinoOf(population, o) ==
    population[First({k \in DOMAIN population : population[k].obj = o})]

\* initialize_population: population_size Dinosaurs, each on a fresh genome
InitEvolve ==
    \E settings \in SettingsDraws, shape \in Shapes :
        /\ pop \in {p \in FreshPopulations(shape, settings.population_size) :
                      \A g \in DOMAIN p : \A k \in DOMAIN p[g].edges :
                          p[g].edges[k].weight \in EvolveWeights}
        /\ ctl = [PopulationController(settings, shape) EXCEPT
                     !.population = [k \in 1..settings.population_size |->
                                        Dinosaur(k, k)]]
        /\ status = "running"
        /\ last = Call("none", 0, NoGenome, NoGenome, 0, 0, 0, 0)
        /\ steps = 0

\* update_population: Dinosaur.update through the list entries 1..k; a live
\* Dinosaur gains 1 each time one of its entries is visited
RECURSIVE update_population(_, _)
update_population(population, k) ==
    IF k = 0 THEN population
    ELSE LET before == update_population(population, k - 1)
         IN  [j \in DOMAIN before |->
                 IF before[j].obj = before[k].obj /\ before[k].is_alive
                 THEN [before[j] EXCEPT !.fitness = @ + 1]
                 ELSE before[j]]

\* check_collisions: the Dinosaurs in hit collide with an obstacle
check_collisions(population, hit) ==
    [j \in DOMAIN population |->
        IF population[j].obj \in hit
        THEN [population[j] EXCEPT !.is_alive = FALSE]
        ELSE population[j]]

check_population_alive(population) ==
    \E k \in DOMAIN population : population[k].is_alive

\* one frame of the game loop: it runs while the generation is on
Frame ==
    /\ status = "running"
    /\ steps < MaxGenerations
    /\ ~ctl.ticked \/ check_population_alive(ctl.population)
    /\ LET updated == update_population(ctl.population, Len(ctl.population))
       IN  /\ \A k \in DOMAIN updated : updated[k].fitness <= MaxFitness
           /\ \E hit \in SUBSET {e.obj : e \in {x \in Range(updated) : x.is_alive}} :
                ctl' = [ctl EXCEPT !.population = check_collisions(updated, hit),
                                   !.ticked = TRUE]
    /\ last' = Call("frame", 0, NoGenome, NoGenome, 0, 0, 0, 0)
    /\ UNCHANGED <<pop, status, steps>>

RECURSIVE TotalFitness(_)
TotalFitness(population) ==
    IF population = <<>> THEN 0
    ELSE Head(population).fitness + TotalFitness(Tail(population))

current_best_fitness(population) ==
    IF population = <<>> THEN 0
    ELSE CHOOSE f \in {e.fitness : e \in Range(population)} :
             \A e \in Range(population) : e.fitness <= f

\* the stagnation test with a strict comparison
is_stagnating_strict(previous_best_fitness, best_fitness, stagnation_threshold) ==
    (best_fitness - previous_best_fitness) * stagnation_threshold.d
        < stagnation_threshold.n * previous_best_fitness

\* fitness_improvement <= settings.stagnation_threshold * previous_best_fitness
is_stagnating(previous_best_fitness, best_fitness, stagnation_threshold) ==
    (best_fitness - previous_best_fitness) * stagnation_threshold.d
        <= stagnation_threshold.n * previous_best_fitness

Selected(raised, best_dinosaurs) ==
    [raised |-> raised, best_dinosaurs |-> best_dinosaurs]

\* roulette_wheel_selection falling back on a uniform draw when the total
\* fitness is 0
roulette_wheel_selection_uniform(population, selection_amount) ==
    LET k == IntTimes(Len(population), selection_amount)
        drawable == {j \in DOMAIN population :
                        population[j].fitness > 0 \/ TotalFitness(population) = 0}
    IN  IF population = <<>> THEN {Selected("IndexError", <<>>)}
        ELSE {Selected("none", [i \in 1..k |-> population[draw[i]]]) :
                 draw \in [1..k -> drawable]}

\* roulette_wheel_selection over its draws: the division by total_fitness,
\* then random.choices with the probabilities as weights (a weight of 0 is
\* never drawn; an empty population makes random.choices raise)
roulette_wheel_selection(population, selection_amount) ==
    LET k == IntTimes(Len(population), selection_amount)
        drawable == {j \in DOMAIN population : population[j].fitness > 0}
    IN  IF population = <<>> THEN {Selected("IndexError", <<>>)}
        ELSE IF TotalFitness(population) = 0
        THEN {Selected("ZeroDivisionError", <<>>)}
        ELSE {Selected("none", [i \in 1..k |-> population[draw[i]]]) :
                 draw \in [1..k -> drawable]}

\* random.sample(best_dinosaurs, 2): two different positions of the list
ParentDraws(best_dinosaurs) ==
    {pair \in (DOMAIN best_dinosaurs) \X (DOMAIN best_dinosaurs) : pair[1] # pair[2]}

\* crossover of two genomes of p over its draws
Offspring(p, d, r) ==
    {crossover(p[d], p[r], Identify(nodes, NodeObjs(p)), Identify(edges, EdgeObjs(p))) :
        nodes \in OffspringNodes(p[d], p[r], Len(p[d].nodes)),
        edges \in OffspringEdges(p[d], p[r], Len(p[d].edges))}

Bred(p, st, parents) == [pop |-> p, status |-> st, parents |-> parents]

\* the while loop of evolve_population run for n children: the genomes with
\* the child genomes appended, and the parents drawn for each child
\* one pass of the while loop of evolve_population from the genomes p: two
\* parents, their offspring appended as the last genome, mutate on it
BreedOne(p, best_dinosaurs, pair, mutation_rate, mutation_scale) ==
    UNION {mutate(Append(p, child_genome), Len(p) + 1, mutation_rate, mutation_scale) :
           child_genome \in Offspring(p, best_dinosaurs[pair[1]].genome,
                                      best_dinosaurs[pair[2]].genome)}

\* the while loop run for n children: the genomes with the child genomes
\* appended, and the parents drawn for each child
RECURSIVE Breed(_, _, _, _, _)
Breed(p, best_dinosaurs, n, mutation_rate, mutation_scale) ==
    IF n = 0 THEN {Bred(p, "running", <<>>)}
    ELSE UNION {
            IF b.status = "hung" THEN {b}
            ELSE UNION {
                    {Bred(o.pop, o.status, Append(b.parents, pair)) :
                        o \in BreedOne(b.pop, best_dinosaurs, pair,
                                       mutation_rate, mutation_scale)} :
                    pair \in ParentDraws(best_dinosaurs)} :
            b \in Breed(p, best_dinosaurs, n - 1, mutation_rate, mutation_scale)}

\* best_dinosaurs[:-fresh_dinos_count]
DropLast(best_dinosaurs, fresh_dinos_count) ==
    IF fresh_dinos_count = 0 THEN <<>>
    ELSE SubSeq(best_dinosaurs, 1, Len(best_dinosaurs) - fresh_dinos_count)

\* the genomes no Dinosaur of the population refers to are gone; the
\* remaining ones keep their order
LiveGenomes(p, population) ==
    LET live == Asc({population[k].genome : k \in DOMAIN population})
    IN  [k \in DOMAIN live |-> p[live[k]]]

Relocated(population) ==
    LET live == {population[k].genome : k \in DOMAIN population}
    IN  [k \in DOMAIN population |->
            [population[k] EXCEPT
                !.genome = Cardinality({h \in live : h <= population[k].genome})]]

\* Dinosaur identities renamed by first occurrence in the list order
RenamedDinos(list, order) ==
    [k \in DOMAIN list |-> [list[k] EXCEPT !.obj = Rank(order, list[k].obj)]]

\* the Dinosaurs of a list as they are at the call, without their genomes
Snapshot(list) == [k \in DOMAIN list |-> [list[k] EXCEPT !.genome = 0]]

\* the controller after an evolve_population that got as far as recorded
Evolved(c, population, call) ==
    LET order == [k \in DOMAIN population |-> population[k].obj]
                     \o [k \in DOMAIN call.outgoing |-> call.outgoing[k].obj]
    IN  [c EXCEPT
            !.population = RenamedDinos(Relocated(population), order),
            !.previous_best_fitness = current_best_fitness(c.population),
            !.ticked = FALSE,
            !.call = [call EXCEPT
                         !.outgoing = RenamedDinos(Snapshot(call.outgoing), order),
                         !.best_dinosaurs =
                             RenamedDinos(Snapshot(call.best_dinosaurs), order)]]

\* evolve_population, called at the end of a frame that leaves no Dinosaur alive
EvolvePopulation ==
    /\ status = "running"
    /\ ctl.ticked
    /\ ~check_population_alive(ctl.population)
    /\ steps < MaxGenerations
    /\ steps' = steps + 1
    /\ last' = Call("evolve_population", 0, NoGenome, NoGenome, 0, 0, 0, 0)
    /\ LET population == ctl.population
           settings == ctl.settings
           stagnating == is_stagnating(ctl.previous_best_fitness,
                                       current_best_fitness(population),
                                       settings.stagnation_threshold)
           call == [NoCall EXCEPT
                       !.outgoing = population,
                       !.previous_best_fitness = ctl.previous_best_fitness,
                       !.is_stagnating = stagnating]
           mutation_rate ==
               Times(settings.mutation_rate, IF stagnating THEN 3 ELSE 1)
           mutation_scale ==
               Times(settings.mutation_scale, IF stagnating THEN 2 ELSE 1)
           fresh_dinos_count ==
               IntTimes(settings.population_size,
                        settings.stagnation_replacement_percentage)
       IN  \E selected \in roulette_wheel_selection(population,
                                                    settings.selection_amount) :
           LET best_dinosaurs == selected.best_dinosaurs
               num_children_needed == settings.population_size - Len(best_dinosaurs)
               chosen == [call EXCEPT !.best_dinosaurs = best_dinosaurs]
           IN  IF selected.raised # "none"
               THEN /\ ctl' = Evolved(ctl, population,
                                      [call EXCEPT !.raised = selected.raised])
                    /\ status' = "raised"
                    /\ pop' = pop
               ELSE IF num_children_needed > 0 /\ Len(best_dinosaurs) < 2
               THEN /\ ctl' = Evolved(ctl, population,
                                      [chosen EXCEPT !.raised = "ValueError"])
                    /\ status' = "raised"
                    /\ pop' = pop
               ELSE \E b \in Breed(pop, best_dinosaurs, Max(num_children_needed, 0),
                                   mutation_rate, mutation_scale) :
                    IF b.status = "hung"
                    THEN /\ ctl' = Evolved(ctl, population,
                                           [chosen EXCEPT !.parents = b.parents])
                         /\ status' = "hung"
                         /\ pop' = pop
                    ELSE \E w \in [1..(ctl.shape[1] * ctl.shape[2]) -> EvolveWeights] :
                         LET used == DinoObjs(population)
                             children == Len(b.pop) - Len(pop)
                             fresh == IF stagnating THEN fresh_dinos_count ELSE 0
                             genomes ==
                                 IF stagnating
                                 THEN Append(b.pop, FreshGenome(ctl.shape, w, b.pop))
                                 ELSE b.pop
                             new_population ==
                                 [i \in 1..children |->
                                     Dinosaur(NthFree(used, i), Len(pop) + i)]
                                 \o [i \in 1..fresh |->
                                        Dinosaur(NthFree(used, children + i),
                                                 Len(b.pop) + 1)]
                             retained ==
                                 IF stagnating
                                 THEN DropLast(best_dinosaurs, fresh_dinos_count)
                                 ELSE best_dinosaurs
                             result == retained \o new_population
                         IN  /\ ctl' = Evolved(ctl, result,
                                           [chosen EXCEPT
                                               !.parents = b.parents,
                                               !.retained = Len(retained),
                                               !.children = children,
                                               !.fresh = fresh])
                             /\ status' = "running"
                             /\ pop' = Canon(LiveGenomes(genomes, result))

NextEvolve ==
    \/ Frame
    \/ EvolvePopulation

SpecEvolve == InitEvolve /\ [][NextEvolve]_vars

(***************************************************************************)
(* evolve_population on its own: one call on a population whose Dinosaurs  *)
(* got their fitness from the caller (fitness is an attribute the          *)
(* controller only reads), the generation over, after any earlier best.    *)
(***************************************************************************)
FitnessDraws == 0..MaxFitness

InitCall ==
    \E settings \in SettingsDraws, shape \in Shapes :
        /\ pop \in {p \in FreshPopulations(shape, settings.population_size) :
                      \A g \in DOMAIN p : \A k \in DOMAIN p[g].edges :
                          p[g].edges[k].weight \in EvolveWeights}
        /\ \E fitness \in [1..settings.population_size -> FitnessDraws],
              previous_best_fitness \in FitnessDraws :
            ctl = [PopulationController(settings, shape) EXCEPT
                      !.population =
                          [k \in 1..settings.population_size |->
                              [Dinosaur(k, k) EXCEPT !.fitness = fitness[k],
                                                     !.is_alive = FALSE]],
                      !.previous_best_fitness = previous_best_fitness,
                      !.ticked = TRUE]
        /\ status = "running"
        /\ last = Call("none", 0, NoGenome, NoGenome, 0, 0, 0, 0)
        /\ steps = 0

NextCall == EvolvePopulation

SpecCall == InitCall /\ [][NextCall]_vars

(***************************************************************************)
(* The genome operators together with the evaluation of the genomes: the   *)
(* calls of Spec, and FeedForwardNetwork.forward on any genome of the      *)
(* population and any input vector.                                        *)
(***************************************************************************)
\* the record of a forward call: the genome, the input vector, the order
\* _get_topological_order resolved, and what forward ended with
ForwardCall(g, genome, inputs) ==
    [op |-> "forward", g |-> g, pre |-> genome, inputs |-> inputs,
     order |-> get_topological_order(genome),
     result |-> forward(genome, inputs)]

(***************************************************************************)
(* One lineage: a single genome that is crossed with itself and mutated,   *)
(* followed over more calls and up to larger genomes than the populations  *)
(* above.  The draws of weights and biases are fixed: the walk of          *)
(* would_create_cycle reads the links only.                                *)
(***************************************************************************)
MaxLineageCalls == 6
MaxLineageNodes == 6
MaxLineageEdges == 10

InitLineage ==
    /\ pop \in {p \in FreshPopulations(<<1, 1>>, 1) :
                   \A k \in DOMAIN p[1].edges : p[1].edges[k].weight \in EvolveWeights}
    /\ status = "running"
    /\ last = Call("none", 0, NoGenome, NoGenome, 0, 0, 0, 0)
    /\ steps = 0
    /\ ctl = NoController

LineageCall ==
    /\ steps < MaxLineageCalls
    /\ steps' = steps + 1
    /\ status = "running"

LineageCrossover ==
    /\ LineageCall
    /\ \E nodes \in OffspringNodes(pop[1], pop[1], Len(pop[1].nodes)),
          edges \in OffspringEdges(pop[1], pop[1], Len(pop[1].edges)) :
           /\ pop' = Canon(<<crossover(pop[1], pop[1],
                                       Identify(nodes, NodeObjs(pop)),
                                       Identify(edges, EdgeObjs(pop)))>>)
           /\ last' = Call("crossover", 1, pop[1], pop[1], 0, 0, 0, 0)
    /\ UNCHANGED <<status, ctl>>

LineageAddNode ==
    /\ LineageCall
    /\ Len(pop[1].nodes) < MaxLineageNodes
    /\ Len(pop[1].edges) + 2 <= MaxLineageEdges
    /\ \E k \in DOMAIN pop[1].edges :
           /\ pop' = Canon(mutate_add_node(pop, 1, k, 0))
           /\ last' = Call("mutate_add_node", 1, pop[1], NoGenome,
                           pop[1].node_counter, pop[1].edges[k].input_id,
                           pop[1].edges[k].output_id, k)
    /\ UNCHANGED <<status, ctl>>

LineageAddEdge ==
    /\ LineageCall
    /\ \E input_id \in 1..pop[1].in_features :
       \E output_id \in Range(get_hidden_nodes(pop[1]) \o get_output_nodes(pop[1])) :
           /\ input_id # output_id
           /\ find_edge(pop[1], input_id, output_id) = 0
                  => Len(pop[1].edges) < MaxLineageEdges
           /\ pop' = Canon(mutate_add_edge(pop, 1, input_id, output_id, 1))
           /\ status' =
                  IF /\ find_edge(pop[1], input_id, output_id) = 0
                     /\ would_create_cycle(pop[1], input_id, output_id)
                            = "diverges"
                  THEN "hung" ELSE "running"
           /\ last' = Call("mutate_add_edge", 1, pop[1], NoGenome,
                           0, input_id, output_id, 0)
    /\ UNCHANGED ctl

NextLineage == LineageCrossover \/ LineageAddNode \/ LineageAddEdge

SpecLineage == InitLineage /\ [][NextLineage]_vars

(***************************************************************************)
(* mutate called on the genome of a population of one, with the rate and   *)
(* the scale of the call drawn.                                            *)
(***************************************************************************)
MaxMutations == 2

\* the pairs (mutation_rate, mutation_scale) of the calls
MutationDraws ==
    {<<Frac(1, 1), Frac(1, 2)>>, <<Frac(1, 2), Frac(1, 1)>>,
     <<Frac(0, 1), Frac(1, 2)>>, <<Frac(1, 1), Frac(0, 1)>>}

MutateCall(population, mutation_rate, mutation_scale) ==
    [op |-> "mutate", g |-> 1, population |-> population,
     mutation_rate |-> mutation_rate, mutation_scale |-> mutation_scale]

InitMutate ==
    /\ pop \in {p \in FreshPopulations(<<1, 1>>, 1) :
                   \A k \in DOMAIN p[1].edges : p[1].edges[k].weight \in EvolveWeights}
    /\ status = "running"
    /\ last = Call("none", 0, NoGenome, NoGenome, 0, 0, 0, 0)
    /\ steps = 0
    /\ ctl = NoController

Mutate ==
    /\ steps < MaxMutations
    /\ steps' = steps + 1
    /\ status = "running"
    /\ \E draw \in MutationDraws : \E o \in mutate(pop, 1, draw[1], draw[2]) :
           /\ pop' = Canon(o.pop)
           /\ status' = o.status
           /\ last' = MutateCall(pop, draw[1], draw[2])
    /\ UNCHANGED ctl

NextMutate == Mutate

SpecMutate == InitMutate /\ [][NextMutate]_vars

(***************************************************************************)
(* Persistence (src/utils/serialization.py).  The file is the JSON list of *)
(* the genomes: numbers and flags by value, an activation by its registry  *)
(* name, no object identity.                                               *)
(***************************************************************************)
ACTIVATION_MAP == [name \in {"relu", "softmax"} |-> name]

\* REVERSE_ACTIVATION_MAP.get(activation, "relu")
REVERSE_ACTIVATION_MAP(activation) ==
    IF \E name \in DOMAIN ACTIVATION_MAP : ACTIVATION_MAP[name] = activation
    THEN CHOOSE name \in DOMAIN ACTIVATION_MAP : ACTIVATION_MAP[name] = activation
    ELSE "relu"

serialize_population(population) ==
    [g \in DOMAIN population |->
        [in_features |-> population[g].in_features,
         out_features |-> population[g].out_features,
         node_counter |-> population[g].node_counter,
         nodes |-> [k \in DOMAIN population[g].nodes |->
                       [id |-> population[g].nodes[k].id,
                        bias |-> population[g].nodes[k].bias,
                        activation |->
                            REVERSE_ACTIVATION_MAP(population[g].nodes[k].activation)]],
         edges |-> [k \in DOMAIN population[g].edges |->
                       [input_id |-> population[g].edges[k].input_id,
                        output_id |-> population[g].edges[k].output_id,
                        weight |-> population[g].edges[k].weight,
                        is_enabled |-> population[g].edges[k].is_enabled]]]]

\* one genome of the file rebuilt with every edge enabled
deserialize_genome_enabled(serialized_genome, kept) ==
    [in_features |-> serialized_genome.in_features,
     out_features |-> serialized_genome.out_features,
     node_counter |-> serialized_genome.node_counter,
     nodes |-> [k \in DOMAIN serialized_genome.nodes |->
                   Node(NthFree(NodeObjs(kept), k),
                        serialized_genome.nodes[k].id,
                        serialized_genome.nodes[k].bias,
                        IF serialized_genome.nodes[k].activation
                               \in DOMAIN ACTIVATION_MAP
                        THEN ACTIVATION_MAP[serialized_genome.nodes[k].activation]
                        ELSE ACTIVATION_MAP["relu"])],
     edges |-> [k \in DOMAIN serialized_genome.edges |->
                   Edge(NthFree(EdgeObjs(kept), k),
                        serialized_genome.edges[k].input_id,
                        serialized_genome.edges[k].output_id,
                        serialized_genome.edges[k].weight,
                        TRUE)]]

\* one genome of the file rebuilt: Genome(in, out), the counter value set,
\* a new Node and a new Edge per entry; kept are the genomes rebuilt before
deserialize_genome(serialized_genome, kept) ==
    [in_features |-> serialized_genome.in_features,
     out_features |-> serialized_genome.out_features,
     node_counter |-> serialized_genome.node_counter,
     nodes |-> [k \in DOMAIN serialized_genome.nodes |->
                   Node(NthFree(NodeObjs(kept), k),
                        serialized_genome.nodes[k].id,
                        serialized_genome.nodes[k].bias,
                        IF serialized_genome.nodes[k].activation
                               \in DOMAIN ACTIVATION_MAP
                        THEN ACTIVATION_MAP[serialized_genome.nodes[k].activation]
                        ELSE ACTIVATION_MAP["relu"])],
     edges |-> [k \in DOMAIN serialized_genome.edges |->
                   Edge(NthFree(EdgeObjs(kept), k),
                        serialized_genome.edges[k].input_id,
                        serialized_genome.edges[k].output_id,
                        serialized_genome.edges[k].weight,
                        serialized_genome.edges[k].is_enabled)]]

\* the first n genomes of the file
RECURSIVE Deserialized(_, _)
Deserialized(serialized_population, n) ==
    IF n = 0 THEN <<>>
    ELSE LET population == Deserialized(serialized_population, n - 1)
         IN  Append(population,
                    deserialize_genome(serialized_population[n], population))

deserialize_population(serialized_population) ==
    Deserialized(serialized_population, Len(serialized_population))

\* the record of a save followed by a load
ReloadCall(population, file) ==
    [op |-> "reload", pre |-> population, file |-> file]

(***************************************************************************)
(* DinosaurController (src/dinosaur_controller.py).                        *)
(***************************************************************************)
actions == <<"nothing", "up", "down">>

\* x <= y for two numbers
Leq(x, y) == x.n * y.d <= y.n * x.d

\* activations.softmax: np.max raises ValueError on an empty array; the
\* probability of index k is exp(x[k] - max) over the sum of these, kept here
\* as the exponent x[k] - max
softmax(x) ==
    IF x = <<>> THEN [raised |-> "ValueError", probabilities |-> <<>>]
    ELSE LET max_x == x[CHOOSE k \in DOMAIN x : \A j \in DOMAIN x : Leq(x[j], x[k])]
         IN  [raised |-> "",
              probabilities |->
                  [k \in DOMAIN x |-> Add(x[k], Mul(Number(-Unit), max_x))]]

\* np.random.choice(a, p=p, size=1, replace=False)[0]: ValueError when a and p
\* differ in size, else any entry of a with a positive probability (exp of a
\* finite exponent is positive)
choice(a, p) ==
    IF Len(a) # Len(p) THEN [raised |-> "ValueError", values |-> {}]
    ELSE [raised |-> "", values |-> {a[k] : k \in DOMAIN a}]

\* the outcome of the try block: the exception it ends with, the values the
\* sample can have
Predicted(genome, features) ==
    LET logits == forward(genome, features)
        soft == softmax(logits.outputs)
        sample == choice(actions, soft.probabilities)
    IN  IF logits.raised # "" THEN [raised |-> logits.raised, values |-> {}]
        ELSE IF soft.raised # "" THEN [raised |-> soft.raised, values |-> {}]
        ELSE sample

\* predict_action without its except clause: the exception leaves the call
predict_action_uncaught(genome, features) ==
    LET tried == Predicted(genome, features)
    IN  IF tried.raised # "" THEN {tried.raised} ELSE tried.values

\* predict_action: the values it can return
predict_action(genome, features) ==
    LET tried == Predicted(genome, features)
    IN  IF tried.raised # "" THEN {"nothing"} ELSE tried.values

\* the feature vectors handed to a controller: of the length of the input
\* layer, or one short
FeatureVectors(g) ==
    InputVectors(g) \cup [1..(g.in_features - 1) -> InputDraws]

PredictCall(g, genome, features, prediction) ==
    [op |-> "predict_action", g |-> g, pre |-> genome, features |-> features,
     raised |-> Predicted(genome, features).raised, prediction |-> prediction]

InitNetwork ==
    \/ \E population_size \in PopulationSizes : InitOf(population_size)
    \/ /\ pop \in UNION {{p \in FreshPopulations(shape, 1) :
                             \A k \in DOMAIN p[1].edges :
                                 p[1].edges[k].weight \in EvolveWeights} :
                         shape \in NetworkShapes}
       /\ status = "running"
       /\ last = Call("none", 0, NoGenome, NoGenome, 0, 0, 0, 0)
       /\ steps = 0
       /\ ctl = NoController

\* a forward that takes a value from the allocator of the genome
ForwardAllocating ==
    /\ status = "running"
    /\ \E g \in DOMAIN pop :
        \E inputs \in InputVectors(pop[g]) :
            /\ pop[g].node_counter <= MaxCounter
            /\ last' = ForwardCall(g, pop[g], inputs)
            /\ pop' = [pop EXCEPT ![g].node_counter = @ + 1]
    /\ UNCHANGED <<status, steps, ctl>>

\* FeedForwardNetwork(genome).forward(inputs)
Forward ==
    /\ status = "running"
    /\ \E g \in DOMAIN pop :
        \E inputs \in InputVectors(pop[g]) :
            last' = ForwardCall(g, pop[g], inputs)
    /\ UNCHANGED <<pop, status, steps, ctl>>

\* train.py: the population is saved when a run ends and loaded when the next
\* run starts
Reload ==
    /\ status = "running"
    /\ pop' = Canon(deserialize_population(serialize_population(pop)))
    /\ last' = ReloadCall(pop, serialize_population(pop))
    /\ UNCHANGED <<status, steps, ctl>>

PredictAction ==
    /\ status = "running"
    /\ \E g \in DOMAIN pop : \E features \in FeatureVectors(pop[g]) :
       \E prediction \in predict_action(pop[g], features) :
           last' = PredictCall(g, pop[g], features, prediction)
    /\ UNCHANGED <<pop, status, steps, ctl>>

\* one controller and its genome, of each shape
InitController ==
    /\ pop \in UNION {{p \in FreshPopulations(shape, 1) :
                          \A k \in DOMAIN p[1].edges :
                              p[1].edges[k].weight \in EvolveWeights} :
                      shape \in Shapes \cup NetworkShapes}
    /\ status = "running"
    /\ last = Call("none", 0, NoGenome, NoGenome, 0, 0, 0, 0)
    /\ steps = 0
    /\ ctl = NoController

NextController ==
    \/ Crossover
    \/ MutateAddEdge
    \/ MutateAddNode
    \/ MutateRemoveNode
    \/ PredictAction

SpecController == InitController /\ [][NextController]_vars

NextNetwork ==
    \/ Initialize
    \/ Crossover
    \/ MutateAddEdge
    \/ MutateAddNode
    \/ MutateRemoveNode
    \/ Forward
    \/ Reload

SpecNetwork == InitNetwork /\ [][NextNetwork]_vars

(***************************************************************************)
(* Properties.                                                             *)
(***************************************************************************)
NodeIds(g) == {g.nodes[k].id : k \in DOMAIN g.nodes}

\* the ids a call can be given
Ids == 0..(MaxCounter + 1)

\* the edges of g that have node_id as their source or their destination
EdgesAt(g, node_id) ==
    {k \in DOMAIN g.edges :
        g.edges[k].input_id = node_id \/ g.edges[k].output_id = node_id}

\* the nodes that enabled edges lead to from the nodes of S, in one step
EnabledSuccessors(g, S) ==
    {g.edges[k].output_id :
        k \in {j \in DOMAIN g.edges :
                  g.edges[j].is_enabled /\ g.edges[j].input_id \in S}}

\* the nodes reached from the nodes of S along at most n further enabled edges
RECURSIVE EnabledReach(_, _, _)
EnabledReach(g, S, n) ==
    IF n = 0 THEN S
    ELSE EnabledReach(g, S \cup EnabledSuccessors(g, S), n - 1)

\* a directed path of one or more enabled edges leads from a to b
EnabledPath(g, a, b) ==
    b \in EnabledReach(g, EnabledSuccessors(g, {a}), Len(g.edges))

Acyclic(g) ==
    \A k \in DOMAIN g.edges :
        g.edges[k].is_enabled =>
            ~EnabledPath(g, g.edges[k].input_id, g.edges[k].input_id)

\* C1: no two nodes of a genome have the same id.
C1_NodeIdsUnique ==
    \A g \in DOMAIN pop :
        \A i, j \in DOMAIN pop[g].nodes :
            pop[g].nodes[i].id = pop[g].nodes[j].id => i = j

\* C2: no two edges of a genome, enabled or not, have the same Link.
C2_LinksUnique ==
    \A g \in DOMAIN pop :
        \A i, j \in DOMAIN pop[g].edges :
            LinkEq(pop[g].edges[i], pop[g].edges[j].input_id,
                   pop[g].edges[j].output_id) => i = j

\* C3: the enabled edges of a genome form no directed cycle and no self-loop.
C3_EnabledGraphIsDag == \A g \in DOMAIN pop : Acyclic(pop[g])

\* C4: an insertion of an enabled edge between two nodes of a genome whose
\* enabled edges form no cycle, made only after would_create_cycle returned
\* False, leaves a genome whose enabled edges form no cycle.
C4_GuardKeepsAcyclic ==
    (last.op = "insert" /\ Acyclic(last.pre)) => Acyclic(pop[last.g])

\* C5: whenever would_create_cycle returns True for a link between two nodes
\* of a genome, enabled edges lead from the link's destination to its source.
C5_NoFalsePositive ==
    \A g \in DOMAIN pop :
        \A input_id \in NodeIds(pop[g]), output_id \in NodeIds(pop[g]) :
            would_create_cycle(pop[g], input_id, output_id) = "True"
                => EnabledPath(pop[g], output_id, input_id)

\* C6: forward gives the same outputs right after mutate_add_node as right
\* before it, on every input vector, for a genome that had an edge to split.
C6_EdgeSplitPreservesForward ==
    (last.op = "mutate_add_node" /\ last.pre.edges # <<>>) =>
        \A inputs \in InputVectors(last.pre) :
            forward(pop[last.g], inputs) = forward(last.pre, inputs)

\* C7: the id an add-node call gives its new node has not been given before:
\* no other genome of the population holds a node of that id (which it could
\* not have inherited from this call), and the genome itself held none.
C7_SharedAllocator ==
    (last.op = "mutate_add_node" /\ last.id # 0) =>
        /\ last.id \notin NodeIds(last.pre)
        /\ \A h \in DOMAIN pop \ {last.g} : last.id \notin NodeIds(pop[h])

\* C8: after remove_node(id) has returned, no edge of the genome has id as its
\* source or its destination.
C8_CascadeDeletion ==
    (last.op = "mutate_remove_node" /\ last.id # 0) =>
        EdgesAt(pop[last.g], last.id) = {}

\* C9: remove_node(id) with an id no node of the genome has changes neither
\* the nodes nor the edges and returns normally, for the call mutate_remove_node
\* makes and for every other id the genome lacks.
C9_RemoveAbsentIsNoOp ==
    /\ \A g \in DOMAIN pop : \A node_id \in Ids :
          find_node(pop[g], node_id) = 0
              => remove_node(pop[g], node_id) = pop[g]
    /\ (/\ last.op = "mutate_remove_node"
        /\ last.id # 0
        /\ find_node(last.pre, last.id) = 0)
           => pop[last.g] = last.pre /\ status = "running"

\* C9's case: mutate_remove_node has drawn an id that no node has while an
\* edge of the genome points to it.
C9_Witness ==
    /\ last.op = "mutate_remove_node"
    /\ last.id # 0
    /\ find_node(last.pre, last.id) = 0
    /\ EdgesAt(last.pre, last.id) # {}
    /\ pop[last.g] = last.pre

\* C10: the offspring has exactly the node ids of the dominant parent; an id
\* of both parents appears once, with the bias of one parent and the
\* activation of one parent; an id of the dominant parent alone appears with
\* the dominant parent's bias and activation.
C10_CrossoverNodeRule ==
    last.op = "crossover" =>
        LET offspring == pop[last.g]
            dominant == last.pre
            recessive == last.rec
            At(g, node_id) == {k \in DOMAIN g.nodes : g.nodes[k].id = node_id}
        IN  /\ NodeIds(offspring) = NodeIds(dominant)
            /\ \A node_id \in NodeIds(dominant) :
                /\ Cardinality(At(offspring, node_id)) = 1
                /\ \A k \in At(offspring, node_id) :
                    IF node_id \in NodeIds(recessive)
                    THEN /\ offspring.nodes[k].bias \in
                              {dominant.nodes[i].bias : i \in At(dominant, node_id)}
                              \cup {recessive.nodes[i].bias :
                                       i \in At(recessive, node_id)}
                         /\ offspring.nodes[k].activation \in
                              {dominant.nodes[i].activation :
                                  i \in At(dominant, node_id)}
                              \cup {recessive.nodes[i].activation :
                                       i \in At(recessive, node_id)}
                    ELSE \E i \in At(dominant, node_id) :
                         /\ offspring.nodes[k].bias = dominant.nodes[i].bias
                         /\ offspring.nodes[k].activation
                                = dominant.nodes[i].activation

\* the edges of g that have the Link of edge e
LinkAt(g, e) == {k \in DOMAIN g.edges : LinkEq(g.edges[k], e.input_id, e.output_id)}

\* C11: the offspring has the Links of the dominant parent, edge for edge, and
\* the dominant parent's in_features and out_features; an edge whose Link the
\* recessive parent has too carries the weight of one parent's edge of that
\* Link and the flag of one parent's edge of that Link; an edge whose Link
\* the recessive parent lacks carries the dominant edge's weight and flag; so
\* no Link of the recessive parent alone is in the offspring.
C11_CrossoverEdgeRule ==
    last.op = "crossover" =>
        LET offspring == pop[last.g]
            dominant == last.pre
            recessive == last.rec
        IN  /\ offspring.in_features = dominant.in_features
            /\ offspring.out_features = dominant.out_features
            /\ Len(offspring.edges) = Len(dominant.edges)
            /\ \A k \in DOMAIN offspring.edges :
                LET e == offspring.edges[k]
                    d == dominant.edges[k]
                    both == {dominant.edges[i] : i \in LinkAt(dominant, d)}
                                \cup {recessive.edges[i] : i \in LinkAt(recessive, d)}
                IN  /\ LinkEq(e, d.input_id, d.output_id)
                    /\ IF LinkAt(recessive, d) # {}
                       THEN /\ e.weight \in {x.weight : x \in both}
                            /\ e.is_enabled \in {x.is_enabled : x \in both}
                       ELSE e.weight = d.weight /\ e.is_enabled = d.is_enabled

\* C11's case: a crossover of two parents that differ in the weight and in the
\* flag of a shared Link, the recessive one with a Link the dominant one
\* lacks, gave an edge with the weight of one parent and the flag of the other.
C11_Witness ==
    /\ last.op = "crossover"
    /\ \E k \in DOMAIN last.pre.edges :
        \E i \in LinkAt(last.rec, last.pre.edges[k]) :
            /\ last.pre.edges[k].weight # last.rec.edges[i].weight
            /\ last.pre.edges[k].is_enabled # last.rec.edges[i].is_enabled
            /\ pop[last.g].edges[k].weight = last.pre.edges[k].weight
            /\ pop[last.g].edges[k].is_enabled = last.rec.edges[i].is_enabled
    /\ \E i \in DOMAIN last.rec.edges : LinkAt(last.pre, last.rec.edges[i]) = {}

(***************************************************************************)
(* Properties of evolve_population, over SpecEvolve.                       *)
(***************************************************************************)
\* the latest step was an evolve_population call that returned
Completed == last.op = "evolve_population" /\ status = "running"

\* C12: after every completed evolve_population call the population has
\* population_size members, whatever the settings and whether or not the
\* generation stagnated, in every generation.
C12_PopulationSizeFixed ==
    Completed => Len(ctl.population) = ctl.settings.population_size

\* C13: after evolve_population completes every individual of the new
\* population, retained survivors included, is alive and has the initial
\* fitness.
C13_GenerationStartsFresh ==
    Completed =>
        \A k \in DOMAIN ctl.population :
            /\ ctl.population[k].is_alive
            /\ ctl.population[k].fitness = FitnessInit

\* the largest fitness in a population, 0 for an empty one
BestOf(population) ==
    IF population = <<>> THEN 0
    ELSE CHOOSE m \in 0..(MaxFitness + 1) :
             /\ \E k \in DOMAIN population : population[k].fitness = m
             /\ \A k \in DOMAIN population : population[k].fitness <= m

\* C14: previous_best_fitness is 0 before the first call and only
\* evolve_population changes it; every call finds the generation stagnating
\* exactly when (current_best - previous_best) <= stagnation_threshold *
\* previous_best, and then stores current_best, stagnating or not and also
\* when the call raises afterwards.
C14_StagnationDetection ==
    /\ steps = 0 => ctl.previous_best_fitness = 0
    /\ [][/\ last'.op # "evolve_population" =>
                ctl'.previous_best_fitness = ctl.previous_best_fitness
          /\ last'.op = "evolve_population" =>
                LET current_best == BestOf(ctl.population)
                    previous_best == ctl.previous_best_fitness
                    threshold == ctl.settings.stagnation_threshold
                IN  /\ ctl'.call.is_stagnating
                         <=> (current_best - previous_best) * threshold.d
                                 <= threshold.n * previous_best
                    /\ ctl'.previous_best_fitness = current_best]_vars

\* a call that finds the improvement equal to a positive threshold's share of
\* the previous best, and so stagnating
C14_Witness ==
    /\ last.op = "evolve_population"
    /\ ctl.call.is_stagnating
    /\ ctl.settings.stagnation_threshold.n > 0
    /\ ctl.call.previous_best_fitness > 0
    /\ (BestOf(ctl.call.outgoing) - ctl.call.previous_best_fitness)
            * ctl.settings.stagnation_threshold.d
         = ctl.settings.stagnation_threshold.n * ctl.call.previous_best_fitness

\* C15: the selection of every evolve_population call returns exactly
\* floor(population_size * selection_amount) survivors, each a member of the
\* outgoing population (the same one may be drawn again), none of fitness 0
\* while the total fitness is positive.
C15_SelectionCount ==
    (last.op = "evolve_population"
        /\ ctl.call.raised \notin {"IndexError", "ZeroDivisionError"}) =>
        LET best_dinosaurs == ctl.call.best_dinosaurs
        IN  /\ Len(best_dinosaurs)
                 = (ctl.settings.population_size * ctl.settings.selection_amount.n)
                       \div ctl.settings.selection_amount.d
            /\ \A k \in DOMAIN best_dinosaurs :
                /\ best_dinosaurs[k].obj \in DinoObjs(ctl.call.outgoing)
                /\ TotalFitness(ctl.call.outgoing) > 0 =>
                       best_dinosaurs[k].fitness > 0

\* a genome as initialize_genome leaves it: the input and output nodes only,
\* and one edge for each pair of an input and an output
FreshlyInitialized(g) ==
    /\ NodeIds(g) = 1..(g.in_features + g.out_features)
    /\ Len(g.nodes) = g.in_features + g.out_features
    /\ Len(g.edges) = g.in_features * g.out_features
    /\ \A i \in 1..g.in_features :
        \A o \in (g.in_features + 1)..(g.in_features + g.out_features) :
            \E k \in DOMAIN g.edges : LinkEq(g.edges[k], i, o)

\* C16: after a completed call that found the generation stagnating, with
\* k = floor(population_size * stagnation_replacement_percentage), the new
\* population is the selected survivors without their final k (none when k
\* exceeds their number), then the children, then exactly k Dinosaurs on
\* freshly initialized genomes; after one that did not, it is all the
\* selected survivors, then the children, and nothing else.
C16_StagnationReplacement ==
    Completed =>
        LET call == ctl.call
            population == ctl.population
            best_dinosaurs == call.best_dinosaurs
            k == IF call.is_stagnating
                 THEN (ctl.settings.population_size
                          * ctl.settings.stagnation_replacement_percentage.n)
                      \div ctl.settings.stagnation_replacement_percentage.d
                 ELSE 0
            kept == Max(Len(best_dinosaurs) - k, 0)
        IN  /\ Len(population) = kept + call.children + k
            /\ \A i \in 1..kept : population[i].obj = best_dinosaurs[i].obj
            /\ \A i \in (kept + 1)..Len(population) :
                /\ population[i].obj \notin DinoObjs(call.outgoing)
                /\ i > kept + call.children =>
                       FreshlyInitialized(pop[population[i].genome])

\* C17: the two parents of every child of an evolve_population call are two
\* different individuals of the outgoing population.
C17_ParentsDistinct ==
    last.op = "evolve_population" =>
        \A i \in DOMAIN ctl.call.parents :
            LET parent1 == ctl.call.best_dinosaurs[ctl.call.parents[i][1]]
                parent2 == ctl.call.best_dinosaurs[ctl.call.parents[i][2]]
            IN  /\ parent1.obj \in DinoObjs(ctl.call.outgoing)
                /\ parent2.obj \in DinoObjs(ctl.call.outgoing)
                /\ parent1.obj # parent2.obj

C19_ReproductionLoop ==
    (last.op = "evolve_population"
        /\ ctl.call.raised \notin {"IndexError", "ZeroDivisionError"}) =>
        IF Len(ctl.call.best_dinosaurs) < 2
        THEN status = "raised" /\ ctl.call.raised = "ValueError"
        ELSE /\ status = "running"
             /\ ctl.call.children
                  = ctl.settings.population_size - Len(ctl.call.best_dinosaurs)
             /\ Len(ctl.call.parents) = ctl.call.children

\* C20: after every completed evolve_population call no two entries of the
\* population are the same individual and no two of them are controlled by
\* the same Genome object.
C20_ExclusiveOwnership ==
    Completed =>
        \A i \in DOMAIN ctl.population : \A j \in DOMAIN ctl.population :
            i # j =>
                /\ ctl.population[i].obj # ctl.population[j].obj
                /\ ctl.population[i].genome # ctl.population[j].genome

(***************************************************************************)
(* Properties of the evaluation, over SpecNetwork.                         *)
(***************************************************************************)
\* the last node of a genome that has the id
NodeOf(g, node_id) ==
    g.nodes[CHOOSE k \in DOMAIN g.nodes :
               /\ g.nodes[k].id = node_id
               /\ \A j \in DOMAIN g.nodes : g.nodes[j].id = node_id => j <= k]

\* the sum of value(source) * weight over the edges in E
RECURSIVE SumOver(_, _, _, _, _, _)

\* the value node_id holds once the first j nodes of the order have been
\* processed: an input holds its component of the input vector, any other
\* node 0 until it is processed and then the positive part of the sum over
\* its enabled incoming edges of value(source) * weight, plus its bias
RECURSIVE ValueAfter(_, _, _, _, _)
ValueAfter(g, inputs, order, j, node_id) ==
    IF j = 0
    THEN IF node_id \in 1..g.in_features THEN Number(inputs[node_id])
         ELSE Number(0)
    ELSE IF order[j] # node_id \/ node_id \in 1..g.in_features
    THEN ValueAfter(g, inputs, order, j - 1, node_id)
    ELSE LET incoming == {k \in DOMAIN g.edges :
                             g.edges[k].is_enabled /\ g.edges[k].output_id = node_id}
             sum == Add(SumOver(g, inputs, order, j, node_id, incoming),
                        Number(NodeOf(g, node_id).bias))
         IN  IF sum.n > 0 THEN sum ELSE Number(0)

\* a node that feeds itself reads the value it held before
SumOver(g, inputs, order, j, node_id, E) ==
    IF E = {} THEN Number(0)
    ELSE LET k == CHOOSE x \in E : TRUE
         IN  Add(Mul(ValueAfter(g, inputs, order, j - 1, g.edges[k].input_id),
                     Number(g.edges[k].weight)),
                 SumOver(g, inputs, order, j, node_id, E \ {k}))

\* C21: forward returns the values of the output nodes in_features+1 ..
\* in_features+out_features, in ascending id order, that result when input i
\* holds inputs[i-1] and every other node, taken in the resolved order, gets
\* activation(sum over its enabled incoming edges of value(source) * weight,
\* plus bias); a 2-input 1-output genome without hidden nodes, with weights
\* 0.5 and 0.5 and bias 0, maps [1, 1] to [1].
C21_ForwardComputesNetwork ==
    last.op = "forward" =>
        LET g == last.pre
            order == last.order
            outputs == last.result.outputs
        IN  /\ last.result.raised = ""
            /\ Len(outputs) = g.out_features
            /\ \A k \in 1..g.out_features :
                outputs[k] = ValueAfter(g, last.inputs, order, Len(order),
                                        g.in_features + k)
            /\ (/\ g.in_features = 2 /\ g.out_features = 1
                /\ Len(g.nodes) = 3 /\ Len(g.edges) = 2
                /\ \A k \in DOMAIN g.edges :
                       g.edges[k].is_enabled /\ 2 * g.edges[k].weight = Unit
                /\ \A k \in DOMAIN g.nodes : g.nodes[k].bias = 0
                /\ last.inputs = <<Unit, Unit>>)
               => outputs = <<[n |-> 1, d |-> 1]>>

\* the scenario of C21
C21_Witness ==
    /\ last.op = "forward"
    /\ last.pre.in_features = 2
    /\ Len(last.pre.nodes) = 3
    /\ \A k \in DOMAIN last.pre.edges :
           last.pre.edges[k].is_enabled /\ 2 * last.pre.edges[k].weight = Unit
    /\ last.inputs = <<Unit, Unit>>
    /\ last.result.outputs = <<[n |-> 1, d |-> 1]>>

\* the genome without its disabled edges
Pruned(g) ==
    LET Enabled(e) == e.is_enabled
    IN  [g EXCEPT !.edges = SelectSeq(g.edges, Enabled)]

\* the genome with the weight w on every disabled edge
Reweighted(g, w) ==
    [g EXCEPT !.edges = [k \in DOMAIN g.edges |->
                            IF g.edges[k].is_enabled THEN g.edges[k]
                            ELSE [g.edges[k] EXCEPT !.weight = w]]]

\* C22: forward and _get_topological_order give on a genome what they give on
\* the genome without its disabled edges, and what they give with any other
\* weights on the disabled edges.
C22_DisabledEdgeContributesNothing ==
    last.op = "forward" =>
        /\ forward(Pruned(last.pre), last.inputs) = last.result
        /\ get_topological_order(Pruned(last.pre)) = last.order
        /\ \A w \in InitWeights \cup {0, -Unit} :
            /\ forward(Reweighted(last.pre, w), last.inputs) = last.result
            /\ get_topological_order(Reweighted(last.pre, w)) = last.order

\* a call whose input reaches an output over enabled edges and, were it
\* counted, over a disabled edge of weight other than 0 as well
C22_Witness ==
    /\ last.op = "forward"
    /\ \E k \in DOMAIN last.pre.edges :
        /\ ~last.pre.edges[k].is_enabled
        /\ last.pre.edges[k].weight # 0
        /\ last.inputs[last.pre.edges[k].input_id] > 0
        /\ last.pre.edges[k].output_id
               \in Range(get_output_nodes(last.pre))
    /\ \E k \in DOMAIN last.result.outputs : last.result.outputs[k].n > 0

\* the sources of the enabled edges into a node
Sources(g, node_id) ==
    {g.edges[k].input_id :
        k \in {j \in DOMAIN g.edges :
                  g.edges[j].is_enabled /\ g.edges[j].output_id = node_id}}

\* the ids at the positions 1..m of an order
Placed(order, m) == {order[j] : j \in 1..m}

\* C23: _get_topological_order returns a list that starts with the ids
\* 1..in_features and holds every node id of the genome exactly once; up to
\* some position every further node stands behind all the sources of its
\* enabled incoming edges, and the nodes behind that position are the ones a
\* full scan could not promote.
C23_OrderComplete ==
    last.op = "forward" =>
        LET g == last.pre
            order == last.order
        IN  /\ SubSeq(order, 1, g.in_features) = [i \in 1..g.in_features |-> i]
            /\ Range(order) = NodeIds(g)
            /\ Len(order) = Cardinality(NodeIds(g))
            /\ \E m \in g.in_features..Len(order) :
                /\ \A j \in (g.in_features + 1)..m :
                       Sources(g, order[j]) \subseteq Placed(order, j - 1)
                /\ \A j \in (m + 1)..Len(order) :
                       ~(Sources(g, order[j]) \subseteq Placed(order, m))

\* an order with an unresolved remainder
C23_Witness ==
    /\ last.op = "forward"
    /\ \E j \in DOMAIN last.order :
        /\ j > last.pre.in_features
        /\ ~(Sources(last.pre, last.order[j]) \subseteq Placed(last.order, j - 1))

\* C24: on every genome reached from initialize_genome by crossover and the
\* mutation operators, and every input vector of length in_features, forward
\* raises nothing and returns out_features values, the source of every enabled
\* edge being a node it holds a value for; this also when the ordering left
\* nodes unresolved.
C24_ForwardNeverRaises ==
    last.op = "forward" =>
        /\ Len(last.inputs) = last.pre.in_features
        /\ last.result.raised = ""
        /\ DOMAIN last.result.outputs = 1..last.pre.out_features
        /\ \A k \in DOMAIN last.pre.edges :
               last.pre.edges[k].is_enabled =>
                   last.pre.edges[k].input_id \in NodeIds(last.pre)

\* forward answered on a genome with a node the ordering could not resolve
C24_Witness ==
    /\ last.op = "forward"
    /\ last.result.raised = ""
    /\ Len(last.result.outputs) = last.pre.out_features
    /\ \E n \in Range(last.order) :
           n > last.pre.in_features /\ n \in Sources(last.pre, n)

\* the nodes of a genome by value
NodeValues(g) ==
    {<<g.nodes[k].id, g.nodes[k].bias, g.nodes[k].activation>> :
        k \in DOMAIN g.nodes}

\* the edges of a genome by value
EdgeValues(g) ==
    {<<g.edges[k].input_id, g.edges[k].output_id, g.edges[k].weight,
       g.edges[k].is_enabled>> : k \in DOMAIN g.edges}

\* C25: a population whose activations are in the registry, saved and loaded,
\* has genome by genome the same in_features, out_features, allocator value,
\* nodes (id, bias, activation) and edges (source, destination, weight,
\* enabled flag), and the same forward result on every input vector.
C25_PersistenceRoundTrip ==
    (/\ last.op = "reload"
     /\ \A g \in DOMAIN last.pre : \A k \in DOMAIN last.pre[g].nodes :
            last.pre[g].nodes[k].activation \in Range(ACTIVATION_MAP))
    => /\ Len(pop) = Len(last.pre)
       /\ \A g \in DOMAIN last.pre :
           /\ pop[g].in_features = last.pre[g].in_features
           /\ pop[g].out_features = last.pre[g].out_features
           /\ pop[g].node_counter = last.pre[g].node_counter
           /\ Len(pop[g].nodes) = Len(last.pre[g].nodes)
           /\ Len(pop[g].edges) = Len(last.pre[g].edges)
           /\ NodeValues(pop[g]) = NodeValues(last.pre[g])
           /\ EdgeValues(pop[g]) = EdgeValues(last.pre[g])
           /\ \A inputs \in InputVectors(last.pre[g]) :
                  forward(pop[g], inputs) = forward(last.pre[g], inputs)

\* a reloaded population with a disabled edge, a hidden node and an allocator
\* that has moved
C25_Witness ==
    /\ last.op = "reload"
    /\ \E g \in DOMAIN last.pre :
        /\ last.pre[g].node_counter > CounterInit
        /\ Len(last.pre[g].nodes) > last.pre[g].in_features + last.pre[g].out_features
        /\ \E k \in DOMAIN last.pre[g].edges : ~last.pre[g].edges[k].is_enabled
        /\ \E k \in DOMAIN last.file[g].nodes :
               last.file[g].nodes[k].activation = "relu"

\* C26: in every genome of every reachable state get_hidden_nodes lists
\* exactly the ids of the present nodes that are greater than
\* in_features + out_features, get_input_nodes lists exactly 1..in_features and
\* get_output_nodes exactly in_features+1..in_features+out_features.
C26_HiddenNodeClassification ==
    \A g \in DOMAIN pop :
        /\ Range(get_hidden_nodes(pop[g]))
               = {node_id \in NodeIds(pop[g]) :
                     node_id > pop[g].in_features + pop[g].out_features}
        /\ Range(get_input_nodes(pop[g])) = 1..pop[g].in_features
        /\ Range(get_output_nodes(pop[g]))
               = (pop[g].in_features + 1)
                     ..(pop[g].in_features + pop[g].out_features)

\* C27: in every genome reached from initialize_genome by crossover,
\* mutate_add_edge, mutate_add_node and mutate_remove_node, the source and the
\* destination of every edge are ids of nodes of the genome.
C27_NoDanglingEdge ==
    \A g \in DOMAIN pop : \A k \in DOMAIN pop[g].edges :
        /\ pop[g].edges[k].input_id \in NodeIds(pop[g])
        /\ pop[g].edges[k].output_id \in NodeIds(pop[g])

\* the pairs (source, destination) of the edges of a genome
Links(g) == {<<g.edges[k].input_id, g.edges[k].output_id>> : k \in DOMAIN g.edges}

\* C28: a genome that initialize_genome has just built on a new Genome has
\* in_features + out_features nodes with the ids 1..in_features+out_features
\* and bias 0, in_features * out_features edges, all enabled, one for each pair
\* of an input id and an output id, no node with a greater id, and a counter
\* whose next value is in_features + out_features + 1.
C28_FreshGenome ==
    \A g \in DOMAIN pop :
        (steps = 0 \/ (last.op = "initialize" /\ last.g = g)) =>
            LET n_in == pop[g].in_features
                n_out == pop[g].out_features
            IN  /\ Len(pop[g].nodes) = n_in + n_out
                /\ NodeIds(pop[g]) = 1..(n_in + n_out)
                /\ \A k \in DOMAIN pop[g].nodes : pop[g].nodes[k].bias = 0
                /\ Len(pop[g].edges) = n_in * n_out
                /\ \A k \in DOMAIN pop[g].edges : pop[g].edges[k].is_enabled
                /\ Links(pop[g]) = (1..n_in) \X ((n_in + 1)..(n_in + n_out))
                /\ pop[g].node_counter = n_in + n_out + 1

\* initialize_genome has built a genome with several outputs in the place of
\* another genome
C28_Witness ==
    /\ last.op = "initialize"
    /\ steps > 0
    /\ pop[last.g].out_features > 1
    /\ Len(pop[last.g].edges) > 1

\* C29: predict_action returns one of nothing, up, down for every genome and
\* every feature vector, and it returns nothing whenever the forward pass or
\* the sampling has raised: when the vector is shorter than the input layer,
\* and when the genome does not have one output per action.
C29_ClosedActionSet ==
    last.op = "predict_action" =>
        /\ last.prediction \in {"nothing", "up", "down"}
        /\ last.raised # "" => last.prediction = "nothing"
        /\ Len(last.features) < last.pre.in_features => last.raised # ""
        /\ last.pre.out_features # 3 => last.raised # ""
        /\ (Len(last.features) >= last.pre.in_features
            /\ last.pre.out_features = 3) => last.raised = ""

\* the forward pass raised on a short feature vector and the controller
\* answered nothing
C29_Witness ==
    /\ last.op = "predict_action"
    /\ Len(last.features) < last.pre.in_features
    /\ last.raised = "IndexError"
    /\ last.prediction = "nothing"

\* what mutate_add_node does to the lists of the genome, the id of the new
\* node left aside: the picked edge stays in its place, disabled; one node is
\* appended; two enabled edges are appended, (old source -> new node) with
\* weight 1.0 and (new node -> old destination) with the old weight; every
\* other node and edge is as before
AddNodeEffect ==
    LET before == last.pre
        after == pop[last.g]
        n == Len(before.nodes)
        m == Len(before.edges)
    IN  /\ Len(after.nodes) = n + 1
        /\ SubSeq(after.nodes, 1, n) = before.nodes
        /\ after.nodes[n + 1].id = last.id
        /\ after.nodes[n + 1].activation = "relu"
        /\ Len(after.edges) = m + 2
        /\ \A k \in 1..m :
               after.edges[k] = IF k = last.edge
                                THEN [before.edges[k] EXCEPT !.is_enabled = FALSE]
                                ELSE before.edges[k]
        /\ LinkEq(after.edges[m + 1], last.input_id, last.id)
        /\ after.edges[m + 1].weight = Unit
        /\ after.edges[m + 1].is_enabled
        /\ LinkEq(after.edges[m + 2], last.id, last.output_id)
        /\ after.edges[m + 2].weight = before.edges[last.edge].weight
        /\ after.edges[m + 2].is_enabled
        /\ after.in_features = before.in_features
        /\ after.out_features = before.out_features

\* C30: mutate_add_node changes nothing on a genome with no edge; otherwise it
\* disables one edge and keeps it, appends one node whose id is greater than
\* in_features + out_features and was not used in the genome, and appends the
\* two enabled edges through the new node; every other node and edge is
\* unchanged.
C30_AddNodeEffect ==
    last.op = "mutate_add_node" =>
        IF last.pre.edges = <<>> THEN pop[last.g] = last.pre
        ELSE /\ AddNodeEffect
             /\ last.id > last.pre.in_features + last.pre.out_features
             /\ last.id \notin NodeIds(last.pre)

\* the effect on the lists alone, which every add-node call has
AddNodeEffectOnLists ==
    (last.op = "mutate_add_node" /\ last.pre.edges # <<>>) => AddNodeEffect

\* what mutate_add_edge does when would_create_cycle has answered for a link
\* that no edge has: nothing on True, one enabled edge appended otherwise
AddEdgeEffect(answer) ==
    LET before == last.pre
        after == pop[last.g]
        m == Len(before.edges)
    IN  IF answer = "True" THEN after = before
        ELSE /\ after.nodes = before.nodes
             /\ Len(after.edges) = m + 1
             /\ SubSeq(after.edges, 1, m) = before.edges
             /\ LinkEq(after.edges[m + 1], last.input_id, last.output_id)
             /\ after.edges[m + 1].is_enabled

\* what mutate_add_edge does when an edge has the link: that edge is enabled
\* and nothing else differs, so that the same call again changes nothing
ReEnableEffect(i) ==
    LET before == last.pre
        after == pop[last.g]
    IN  /\ after.nodes = before.nodes
        /\ after.edges = [before.edges EXCEPT ![i].is_enabled = TRUE]
        /\ find_edge(after, last.input_id, last.output_id) = i

\* C31: mutate_add_edge picks a source in 1..in_features and a destination
\* different from it; when an edge with that link exists it only sets the
\* enabled flag of that edge (no edge added, no weight changed, a repetition
\* changes nothing more); when none exists the genome is unchanged if
\* would_create_cycle is true, and else one enabled edge with the link is
\* appended.
C31_AddEdgeEffect ==
    last.op = "mutate_add_edge" =>
        LET i == find_edge(last.pre, last.input_id, last.output_id)
        IN  /\ last.input_id \in 1..last.pre.in_features
            /\ last.output_id # last.input_id
            /\ IF i # 0 THEN ReEnableEffect(i)
               ELSE AddEdgeEffect(would_create_cycle(last.pre, last.input_id,
                                                     last.output_id))

\* the effect of the calls of mutate_add_edge that return
AddEdgeEffectOnReturn ==
    (last.op = "mutate_add_edge" /\ status = "running") =>
        LET i == find_edge(last.pre, last.input_id, last.output_id)
        IN  /\ last.input_id \in 1..last.pre.in_features
            /\ last.output_id # last.input_id
            /\ IF i # 0 THEN ReEnableEffect(i)
               ELSE AddEdgeEffect(would_create_cycle(last.pre, last.input_id,
                                                     last.output_id))

\* the links mutate_add_edge can propose on a genome and hands to
\* would_create_cycle: no edge of the genome has them
Proposals(g) ==
    {link \in (1..g.in_features) \X Range(get_hidden_nodes(g) \o get_output_nodes(g)) :
        link[1] # link[2] /\ find_edge(g, link[1], link[2]) = 0}

\* C37: on every genome reached from initialize_genome by crossover and the
\* mutation operators, and for every link mutate_add_edge can propose and
\* check, the walk of would_create_cycle ends with True or False.
C37_CycleWalkTerminates ==
    \A g \in DOMAIN pop : \A link \in Proposals(pop[g]) :
        would_create_cycle(pop[g], link[1], link[2]) \in {"True", "False"}

\* the ids of the nodes of a genome beyond its inputs and outputs
HiddenIds(g) == {node_id \in NodeIds(g) : node_id > g.in_features + g.out_features}

\* C32: when the genome has a node with an id greater than
\* in_features + out_features, mutate_remove_node removes exactly one such
\* node and every edge that has its id as source or destination, and nothing
\* else; when it has none, the genome is unchanged.
C32_RemoveNodeEffect ==
    last.op = "mutate_remove_node" =>
        LET before == last.pre
            after == pop[last.g]
        IN  IF HiddenIds(before) = {} THEN after = before
            ELSE \E k \in DOMAIN before.nodes :
                    /\ before.nodes[k].id \in HiddenIds(before)
                    /\ after.nodes = RemoveObj(before.nodes, before.nodes[k].obj)
                    /\ after.edges =
                           SelectSeq(before.edges,
                                     LAMBDA e : /\ e.input_id # before.nodes[k].id
                                                /\ e.output_id # before.nodes[k].id)
                    /\ after.node_counter = before.node_counter

\* the populations mutate can leave when its sweeps gate each gene by
\* gate_rate and draw the noise with the deviation noise_scale
Swept(structure, g, gate_rate, noise_scale) ==
    UNION {UNION {{Canon(AddBiases(AddWeights(o.pop, g, dw), g, db)) :
                      db \in [DOMAIN o.pop[g].nodes
                                 -> Perturbations(gate_rate, noise_scale)]} :
                  dw \in [DOMAIN o.pop[g].edges
                             -> Perturbations(gate_rate, noise_scale)]} :
           o \in {q \in structure : q.status = "running"}}

\* C33: mutate(genome, rate, scale) runs add-edge, add-node and remove-node in
\* that order, each behind its own draw against rate, and then sweeps all
\* edges and all nodes, perturbing each weight and each bias with the
\* probability rate and with noise of the standard deviation scale.
C33_MutateRateAndScale ==
    (last.op = "mutate" /\ status = "running") =>
        pop \in Swept(MutateStructure(last.population, last.g, last.mutation_rate),
                      last.g, last.mutation_rate, last.mutation_scale)

\* what the calls of mutate do: the sweeps gate each gene by scale and draw
\* the noise with the deviation rate
MutateSweepsSwapped ==
    (last.op = "mutate" /\ status = "running") =>
        pop \in Swept(MutateStructure(last.population, last.g, last.mutation_rate),
                      last.g, last.mutation_scale, last.mutation_rate)

\* the nodes and the edges of a genome by value, in list order
Genes(g) ==
    [nodes |-> [k \in DOMAIN g.nodes |->
                   <<g.nodes[k].id, g.nodes[k].bias, g.nodes[k].activation>>],
     edges |-> [k \in DOMAIN g.edges |->
                   <<g.edges[k].input_id, g.edges[k].output_id,
                     g.edges[k].weight, g.edges[k].is_enabled>>]]

\* C35: a crossover changes no node and no edge of a parent, and a mutation
\* of a genome in place (disabling an edge in add-node, enabling one in
\* add-edge, removing a node) changes no node and no edge of any other genome
\* of the population.
C35_GenesNotShared ==
    [][\A h \in DOMAIN pop :
          (/\ last'.op \in {"crossover", "mutate_add_edge", "mutate_add_node",
                            "mutate_remove_node"}
           /\ h # last'.g)
              => Genes(pop'[h]) = Genes(pop[h])]_vars

\* C34: when the enabled edges of a genome form no cycle and both ends of
\* every enabled edge are nodes of the genome, _get_topological_order places
\* every node that is not an input behind the sources of all its enabled
\* incoming edges, so that forward reads the value of a node only after it
\* has computed it.
C34_DependencyOrder ==
    (/\ last.op = "forward"
     /\ Acyclic(last.pre)
     /\ \A k \in DOMAIN last.pre.edges :
            last.pre.edges[k].is_enabled =>
                /\ last.pre.edges[k].input_id \in NodeIds(last.pre)
                /\ last.pre.edges[k].output_id \in NodeIds(last.pre))
    => \A j \in (last.pre.in_features + 1)..Len(last.order) :
           Sources(last.pre, last.order[j]) \subseteq Placed(last.order, j - 1)

\* forward on such a genome whose order is not the ascending one: a node
\* stands before a node of a smaller id that depends on it
C34_Witness ==
    /\ last.op = "forward"
    /\ Acyclic(last.pre)
    /\ \A k \in DOMAIN last.pre.edges :
           last.pre.edges[k].is_enabled =>
               /\ last.pre.edges[k].input_id \in NodeIds(last.pre)
               /\ last.pre.edges[k].output_id \in NodeIds(last.pre)
    /\ \E i \in DOMAIN last.order : \E j \in DOMAIN last.order :
           /\ last.pre.in_features < i
           /\ i < j
           /\ last.order[i] > last.order[j]
           /\ last.order[i] \in Sources(last.pre, last.order[j])

\* C36: in every genome reached from initialize_genome by crossover and the
\* mutation operators a node exists for every id in
\* 1..in_features+out_features, and no call changes the in_features or the
\* out_features of a genome: no operator removes an input or an output node.
C36_InputsAndOutputsPermanent ==
    /\ [](\A g \in DOMAIN pop :
              \A node_id \in 1..(pop[g].in_features + pop[g].out_features) :
                  \E k \in DOMAIN pop[g].nodes : pop[g].nodes[k].id = node_id)
    /\ [][\A g \in DOMAIN pop :
              /\ pop'[g].in_features = pop[g].in_features
              /\ pop'[g].out_features = pop[g].out_features]_vars

\* mutate_remove_node has removed a node of a genome, and no input or output
C36_Witness ==
    /\ last.op = "mutate_remove_node"
    /\ Len(pop[last.g].nodes) < Len(last.pre.nodes)
    /\ pop[last.g].in_features = last.pre.in_features
    /\ pop[last.g].out_features = last.pre.out_features
    /\ \A node_id \in 1..(pop[last.g].in_features + pop[last.g].out_features) :
           node_id \in NodeIds(pop[last.g])

\* C38: when evolve_population raises, the population of the controller and
\* its previous_best_fitness are what they were before the call, so that a
\* second call takes the same stagnation decision.
C38_FailedEvolveChangesNothing ==
    (last.op = "evolve_population" /\ status = "raised") =>
        /\ Snapshot(ctl.population) = ctl.call.outgoing
        /\ ctl.previous_best_fitness = ctl.call.previous_best_fitness
        /\ is_stagnating(ctl.previous_best_fitness,
                         current_best_fitness(ctl.population),
                         ctl.settings.stagnation_threshold)
               = ctl.call.is_stagnating

====
